---- MODULE Spec2Model ----
(***************************************************************************)
(* Hybrid retrieval and response synthesis of the legal assistant backend: *)
(*   services/hybrid_search_service.py  hybrid_search, merge and ranking   *)
(*   services/rag_service.py            context assembly, key fallback,    *)
(*                                      process_document, hybrid response  *)
(*   utils/text_chunker.py              chunk_text                         *)
(*   services/embedding_service.py      chunk and query embeddings         *)
(*   services/vector_store.py           document storage, pool adapters    *)
(* Similarities are fixed-point numbers scaled by 100 (0.80 is 80).        *)
(***************************************************************************)
EXTENDS Integers, Sequences, FiniteSets, TLC

VARIABLES
    \* ---- one hybrid query (HybridSearchService.hybrid_search) ----
    hpc,              \* position of the query inside hybrid_search / generate_hybrid_response
    params,           \* include_public, include_user_docs, has_session of the call
    results,          \* the dict results = {public_results, user_results, session_results}
    poolOutcome,      \* per pool: how its search ended (ghost, for the claims)
    combined_results, \* return value of _combine_and_rank_results
    context,          \* return value of _build_hybrid_context
    \* ---- generation with key fallback (RAGService.generate_with_fallback) ----
    hasBackup,        \* hasattr(self, 'backup_key')
    activeKey,        \* the api key last passed to genai.configure (process global)
    gpc,              \* per request: position inside generate_with_fallback
    keyLog,           \* per request: credentials of the provider calls it made, in order
    primaryOutcome,   \* per request: how the primary call ended
    returned,         \* per request: value returned by generate_with_fallback
    raisedErr,        \* per request: exception propagated by generate_with_fallback
    calls,            \* invocations of generate_with_fallback started so far
    \* ---- the rest of generate_hybrid_response (RAGService) ----
    answer,           \* what generate_hybrid_response returned or raised
    \* ---- TextChunker.chunk_text ----
    chunker,          \* the call's configuration, input and local variables
    \* ---- document processing and the document store ----
    ingest,           \* position and locals of one process_document call
    store,            \* the tables documents and document_chunks
    found,            \* the pool adapter calls made so far, with what they returned
    \* ---- calls of the embedding api (genai.embed_content) ----
    embedLog,         \* per request: api key in force at each of its embedding calls
    \* ---- VectorStore._calculate_cosine_similarity ----
    cosine,           \* the two vectors of one call and what the call returned
    \* ---- EmbeddingService.generate_embedding / generate_query_embedding ----
    embedding,        \* the text of one call, the content sent to the provider, the outcome
    \* ---- hybrid_search called with a limit ----
    limited,          \* the limit, what each pool returned, the merged list
    \* ---- daily query limit (RateLimitingService, rate_limit_middleware) ----
    rate,             \* the user's usage row and the position of each of their requests
    \* ---- a message sent in a chat session (send_chat_message) ----
    chat              \* the caller, the session id of the url, the sources of the answer

hvars == <<hpc, params, results, poolOutcome, combined_results, context>>
gvars == <<hasBackup, activeKey, gpc, keyLog, primaryOutcome, returned, raisedErr, calls>>
ovars == <<answer, chunker, ingest, store, found, embedLog>>
nvars == <<cosine, embedding, limited, rate, chat>>
vars == <<hpc, params, results, poolOutcome, combined_results, context,
          hasBackup, activeKey, gpc, keyLog, primaryOutcome, returned, raisedErr, calls,
          answer, chunker, ingest, store, found, embedLog,
          cosine, embedding, limited, rate, chat>>

\* ------------------------------------------------------------------------
\* Bounds of the model
\* ------------------------------------------------------------------------
MaxTotal == 3        \* most results the three pools return together
NReq == 2            \* concurrent requests calling generate_with_fallback
MaxCalls == 3        \* invocations of generate_with_fallback in one run

Pools == <<"public", "user", "session">>
PoolSet == {"public", "user", "session"}

\* ------------------------------------------------------------------------
\* Chunk contents: strings as sequences of characters
\* ------------------------------------------------------------------------
DedupPrefixLen == 200

Rep(ch, n) == [i \in 1..n |-> ch]

\* The chunk contents the store can hold.  c1 and c2 differ in case, in
\* surrounding whitespace and after character 200; c3 differs from both at
\* character 200; c4 is a short text.
ContentIds == {"c1", "c2", "c3", "c4"}
\* Two more short texts, for searches that return more than three chunks.
MoreContentIds == {"c5", "c6"}
ContentText ==
    [c \in ContentIds \cup MoreContentIds |->
        CASE c = "c1" -> <<" ">> \o Rep("a", 200) \o <<"b", " ">>
          [] c = "c2" -> Rep("A", 200) \o <<"c">>
          [] c = "c3" -> Rep("a", 199) \o <<"b">>
          [] c = "c4" -> <<"x">>
          [] c = "c5" -> <<"y">>
          [] c = "c6" -> <<"z">>]

Whitespace == {" ", "\t", "\n"}

\* str.strip()
Strip(s) ==
    LET keep == {i \in 1..Len(s) : s[i] \notin Whitespace}
    IN  IF keep = {} THEN <<>>
        ELSE LET lo == CHOOSE i \in keep : \A j \in keep : i <= j
                 hi == CHOOSE i \in keep : \A j \in keep : i >= j
             IN  SubSeq(s, lo, hi)

\* Faulty variant of Lower: the lower-casing is left out.
LowerLeftOut(s) == s

\* str.lower()
LowerChar(ch) == IF ch = "A" THEN "a" ELSE IF ch = "B" THEN "b"
                 ELSE IF ch = "C" THEN "c" ELSE ch
Lower(s) == [i \in 1..Len(s) |-> LowerChar(s[i])]

\* s[:n]
Prefix(s, n) == IF Len(s) <= n THEN s ELSE SubSeq(s, 1, n)

\* content = result.get('chunk_content', '').strip().lower(); content[:200]
NormalizedPrefix(text) == Prefix(Lower(Strip(text)), DedupPrefixLen)

\* hash(content[:200]) of a chunk: equal prefixes give equal hashes; Python's
\* 64-bit str hash is taken to separate the distinct prefixes of the store.
ContentHashTable == [c \in ContentIds \cup MoreContentIds |-> NormalizedPrefix(ContentText[c])]
ContentHash(r) == ContentHashTable[r.chunk_content]

\* ------------------------------------------------------------------------
\* Search results
\* ------------------------------------------------------------------------
Missing == -1                       \* the row carries no 'similarity' key
Sims == {70, 75, 80}                \* raw similarities the store reports
PoolBase == [p \in PoolSet |-> CASE p = "public" -> 0 [] p = "user" -> 10 [] p = "session" -> 20]

\* Rows as a pool search returns them: chunk_content and similarity, and one
\* row that lacks the similarity key.
RawRows == [chunk_content : ContentIds, similarity : Sims]
              \cup {[chunk_content |-> "c4", similarity |-> Missing]}
RowLists(n) == UNION {[1..k -> RawRows] : k \in 0..n}
\* Row i of pool p gets the store's row id PoolBase[p] + i.
WithIds(p, rows) ==
    [i \in 1..Len(rows) |-> [id |-> PoolBase[p] + i,
                             chunk_content |-> rows[i].chunk_content,
                             similarity |-> rows[i].similarity]]

HasSimilarity(r) == r.similarity # Missing

\* Faulty variant of AuthorityBoost: the boosts of an earlier revision, with
\* the user pool above the public pool.
AuthorityBoostUserFirst(p) == CASE p = "public" -> 5 [] p = "user" -> 10 [] p = "session" -> 15

\* authority_boost per pool
AuthorityBoost(p) == CASE p = "public" -> 10 [] p = "user" -> 5 [] p = "session" -> 15

\* Body of the three labelling loops of _combine_and_rank_results.
Label(p, r) ==
    [id |-> r.id, chunk_content |-> r.chunk_content, similarity |-> r.similarity,
     source_type |-> p,
     authority_boost |-> AuthorityBoost(p),
     boosted_similarity |-> IF HasSimilarity(r) THEN r.similarity + AuthorityBoost(p)
                            ELSE AuthorityBoost(p)]

LabelAll(p, rows) == [i \in 1..Len(rows) |-> Label(p, rows[i])]

\* Faulty variant of Concatenate: the lists are joined in the order in which
\* the searches answered, taken here as session, user, public.
ConcatenateAsArrived(res) ==
    LabelAll("session", res.session_results) \o LabelAll("user", res.user_results)
        \o LabelAll("public", res.public_results)

\* combined after the three loops: public, then user, then session
Concatenate(res) ==
    LabelAll("public", res.public_results) \o LabelAll("user", res.user_results)
        \o LabelAll("session", res.session_results)

\* list.sort(key=boosted_similarity, reverse=True): descending and stable,
\* elements of equal key keep their order.
SortRank(seq, i) ==
    1 + Cardinality({j \in 1..Len(seq) : seq[j].boosted_similarity > seq[i].boosted_similarity})
      + Cardinality({j \in 1..(i - 1) : seq[j].boosted_similarity = seq[i].boosted_similarity})
\* Faulty variants of SortByBoostedDesc: reverse=True left out; and an
\* ascending sort reversed afterwards, which turns the ties around.
SortByBoostedAsc(seq) ==
    [k \in 1..Len(seq) |-> seq[CHOOSE i \in 1..Len(seq) : SortRank(seq, i) = Len(seq) + 1 - k]]
SortByBoostedDescTiesReversed(seq) ==
    [k \in 1..Len(seq) |->
        seq[CHOOSE i \in 1..Len(seq) :
              k = 1 + Cardinality({j \in 1..Len(seq) : seq[j].boosted_similarity > seq[i].boosted_similarity})
                    + Cardinality({j \in (i + 1)..Len(seq) : seq[j].boosted_similarity = seq[i].boosted_similarity})]]

SortByBoostedDesc(seq) ==
    [k \in 1..Len(seq) |-> seq[CHOOSE i \in 1..Len(seq) : SortRank(seq, i) = k]]

\* _remove_duplicate_chunks: keep the first result of every content hash.
RECURSIVE DedupFrom(_, _, _)
DedupFrom(seq, i, seen) ==
    IF i > Len(seq) THEN <<>>
    ELSE IF ContentHash(seq[i]) \notin seen
         THEN <<seq[i]>> \o DedupFrom(seq, i + 1, seen \cup {ContentHash(seq[i])})
         ELSE DedupFrom(seq, i + 1, seen)
\* Faulty variant of RemoveDuplicateChunks: the last result of every content
\* hash is kept instead of the first.
RemoveDuplicateChunksKeepLast(seq) ==
    SelectSeq([i \in 1..Len(seq) |->
                  IF \E j \in (i + 1)..Len(seq) : ContentHash(seq[j]) = ContentHash(seq[i])
                  THEN [drop |-> TRUE] ELSE seq[i]],
              LAMBDA r : "drop" \notin DOMAIN r)

RemoveDuplicateChunks(seq) == IF seq = <<>> THEN seq ELSE DedupFrom(seq, 1, {})

CombineAndRankResults(res) == RemoveDuplicateChunks(SortByBoostedDesc(Concatenate(res)))

\* ------------------------------------------------------------------------
\* Context assembly (RAGService._build_hybrid_context)
\* A text is the sequence of its lines ("\n".join(context_parts)); a line is
\* the tuple of its fragments.  The empty string has no line.
\* ------------------------------------------------------------------------
FallbackContext == <<"Based on general legal knowledge and procedures:">>

DocTitle(c) == IF "document_title" \in DOMAIN c THEN c.document_title ELSE "Unknown Document"
DocCategory(c) == IF "document_category" \in DOMAIN c THEN c.document_category ELSE "General"

ChunksOf(chunks, p) == SelectSeq(chunks, LAMBDA c : c.source_type = p)

SourceLine(p, c) ==
    IF p = "public" THEN <<"Source: ", DocTitle(c), " (", DocCategory(c), ")">>
    ELSE <<"Source: ", DocTitle(c)>>

RECURSIVE EntryLines(_, _, _)
EntryLines(p, group, i) ==
    IF i > Len(group) THEN <<>>
    ELSE <<SourceLine(p, group[i]), <<"Content: ", group[i].chunk_content>>, <<"---">>>>
            \o EntryLines(p, group, i + 1)

BlockHeader(p) ==
    CASE p = "public" -> <<"=== LEGAL KNOWLEDGE BASE ===">>
      [] p = "user" -> <<"=== YOUR DOCUMENTS ===">>
      [] p = "session" -> <<"=== CURRENT SESSION DOCUMENTS ===">>

\* Faulty variant of Block: the header is written for an empty group too.
BlockWithEmptyHeader(p, chunks) ==
    <<BlockHeader(p)>> \o EntryLines(p, ChunksOf(chunks, p), 1)

Block(p, chunks) ==
    IF ChunksOf(chunks, p) = <<>> THEN <<>>
    ELSE <<BlockHeader(p)>> \o EntryLines(p, ChunksOf(chunks, p), 1)

\* Faulty variant of BuildHybridContext: the check for an empty list is
\* left out, so the empty list gives the empty text.
BuildHybridContextNoFallback(chunks) ==
    Block("public", chunks) \o Block("user", chunks) \o Block("session", chunks)

BuildHybridContext(chunks) ==
    IF chunks = <<>> THEN <<FallbackContext>>
    ELSE Block("public", chunks) \o Block("user", chunks) \o Block("session", chunks)

\* ------------------------------------------------------------------------
\* One hybrid query: hybrid_search, then the context of generate_hybrid_response
\* ------------------------------------------------------------------------
\* limit=settings.top_k (generate_hybrid_response); hybrid_search asks the
\* public and the user pool for limit//2 results and the session pool for
\* limit//3, and a pool search returns at most the count it is asked for.
TopK == 5
PoolLimit(p) == IF p = "session" THEN TopK \div 3 ELSE TopK \div 2

EmptyResults == [public_results |-> <<>>, user_results |-> <<>>, session_results |-> <<>>]
ResultKey(p) == CASE p = "public" -> "public_results" [] p = "user" -> "user_results"
                  [] p = "session" -> "session_results"
TotalFound == Len(results.public_results) + Len(results.user_results)
                + Len(results.session_results)

InitSearch ==
    /\ hpc = "embed"
    /\ params \in [include_public : BOOLEAN, include_user_docs : BOOLEAN, has_session : BOOLEAN]
    /\ results = EmptyResults
    /\ poolOutcome = [p \in PoolSet |-> "none"]
    /\ combined_results = <<>>
    /\ context = <<>>

\* query_embedding = await generate_query_embedding(query); a failure leaves
\* hybrid_search through its outer handler.
GenerateQueryEmbedding ==
    /\ hpc = "embed"
    /\ \/ hpc' = "public"
       \/ hpc' = "raised"
    /\ UNCHANGED <<params, results, poolOutcome, combined_results, context>>
    /\ UNCHANGED gvars
    /\ UNCHANGED ovars
    /\ UNCHANGED nvars

\* One pool's block of hybrid_search: the search of pool p when it is asked
\* for, with the adapter's own handler (returns []) and the block's handler
\* (sets []) around it.
\* VectorStore.search_*_documents, except Exception: log, return []
AdapterOnError(p, next) ==
    /\ results' = [results EXCEPT ![ResultKey(p)] = <<>>]
    /\ hpc' = next

\* Faulty variant of OnPoolSearchError: the error of the pool search is not
\* caught around the one search and leaves hybrid_search.
OnPoolSearchErrorRaises(p, next) ==
    /\ hpc' = "raised"
    /\ UNCHANGED results

\* hybrid_search, except Exception around one pool's search: log,
\* results[...] = []
OnPoolSearchError(p, next) ==
    /\ results' = [results EXCEPT ![ResultKey(p)] = <<>>]
    /\ hpc' = next

SearchPool(p, asked, here, next) ==
    /\ hpc = here
    /\ IF ~asked
       THEN /\ poolOutcome' = [poolOutcome EXCEPT ![p] = "skipped"]
            /\ hpc' = next
            /\ UNCHANGED results
       ELSE \/ \E rows \in RowLists(PoolLimit(p)) :
                 \* the store answers with rows
                 /\ TotalFound + Len(rows) <= MaxTotal
                 /\ results' = [results EXCEPT ![ResultKey(p)] = WithIds(p, rows)]
                 /\ poolOutcome' = [poolOutcome EXCEPT ![p] = "ok"]
                 /\ hpc' = next
            \/ \* the store call raises inside the adapter
               /\ poolOutcome' = [poolOutcome EXCEPT ![p] = "store_error"]
               /\ AdapterOnError(p, next)
            \/ \* the rows are malformed: hybrid_search fails reading them
               /\ poolOutcome' = [poolOutcome EXCEPT ![p] = "malformed"]
               /\ OnPoolSearchError(p, next)
    /\ UNCHANGED <<params, combined_results, context>>
    /\ UNCHANGED gvars
    /\ UNCHANGED ovars
    /\ UNCHANGED nvars

SearchPublic == SearchPool("public", params.include_public, "public", "user")
SearchUser == SearchPool("user", params.include_user_docs, "user", "session")
SearchSession == SearchPool("session", params.has_session, "session", "combine")

CombineAndRank ==
    /\ hpc = "combine"
    /\ combined_results' = CombineAndRankResults(results)
    /\ hpc' = "session_context"
    /\ UNCHANGED <<params, results, poolOutcome, context>>
    /\ UNCHANGED gvars
    /\ UNCHANGED ovars
    /\ UNCHANGED nvars

\* await chat_service.get_session_context(session_id) answers (it returns ""
\* on its own errors), hybrid_search returns, and generate_hybrid_response
\* runs context = self._build_hybrid_context(relevant_chunks)
BuildContext ==
    /\ hpc = "session_context"
    /\ context' = BuildHybridContext(combined_results)
    /\ hpc' = "context_built"
    /\ UNCHANGED <<params, results, poolOutcome, combined_results>>
    /\ UNCHANGED gvars
    /\ UNCHANGED ovars
    /\ UNCHANGED nvars

\* ------------------------------------------------------------------------
\* Generation with key fallback (RAGService.generate_with_fallback)
\* Requests are coroutines of one event loop: a step runs from one await to
\* the next.  genai.configure sets a key for the whole process.
\* ------------------------------------------------------------------------
Requests == 1..NReq
NoValue == "none"
ResponseText(key) == <<"text", key>>     \* response.text of a call made with `key`

InitGen ==
    /\ hasBackup \in BOOLEAN
    /\ activeKey = "primary"             \* __init__: genai.configure(api_key=settings.gemini_api_key)
    /\ gpc = [r \in Requests |-> "idle"]
    /\ keyLog = [r \in Requests |-> <<>>]
    /\ primaryOutcome = [r \in Requests |-> NoValue]
    /\ returned = [r \in Requests |-> NoValue]
    /\ raisedErr = [r \in Requests |-> NoValue]
    /\ calls = 0

\* A request (its first, or its next after the previous one ended) enters
\* generate_with_fallback:
\* await self.model_primary.generate_content_async(prompt, ...)
CallPrimary(r) ==
    /\ gpc[r] \in {"idle", "returned", "raised"}
    /\ calls < MaxCalls
    /\ calls' = calls + 1
    /\ gpc' = [gpc EXCEPT ![r] = "primary_call"]
    /\ keyLog' = [keyLog EXCEPT ![r] = <<"primary">>]
    /\ primaryOutcome' = [primaryOutcome EXCEPT ![r] = NoValue]
    /\ returned' = [returned EXCEPT ![r] = NoValue]
    /\ raisedErr' = [raisedErr EXCEPT ![r] = NoValue]
    /\ UNCHANGED <<hasBackup, activeKey>>
    /\ UNCHANGED hvars
    /\ UNCHANGED ovars
    /\ UNCHANGED nvars

\* the primary call answers: return response.text
PrimarySucceeds(r) ==
    /\ gpc[r] = "primary_call"
    /\ gpc' = [gpc EXCEPT ![r] = "returned"]
    /\ primaryOutcome' = [primaryOutcome EXCEPT ![r] = "ok"]
    /\ returned' = [returned EXCEPT ![r] = ResponseText("primary")]
    /\ UNCHANGED <<hasBackup, activeKey, keyLog, raisedErr, calls>>
    /\ UNCHANGED hvars
    /\ UNCHANGED ovars
    /\ UNCHANGED nvars

\* Faulty variant of OnResourceExhausted: the backup is tried without the
\* check that a backup key is configured.
OnResourceExhaustedUnchecked(r) ==
    /\ activeKey' = "backup"
    /\ gpc' = [gpc EXCEPT ![r] = "backup_call"]
    /\ keyLog' = [keyLog EXCEPT ![r] = Append(@, "backup")]
    /\ UNCHANGED raisedErr

\* except ResourceExhausted: with a backup key, configure it and call the
\* backup model; without one, raise e
OnResourceExhausted(r) ==
    IF hasBackup
    THEN /\ activeKey' = "backup"
         /\ gpc' = [gpc EXCEPT ![r] = "backup_call"]
         /\ keyLog' = [keyLog EXCEPT ![r] = Append(@, "backup")]
         /\ UNCHANGED raisedErr
    ELSE /\ gpc' = [gpc EXCEPT ![r] = "raised"]
         /\ raisedErr' = [raisedErr EXCEPT ![r] = "ResourceExhausted"]
         /\ UNCHANGED <<activeKey, keyLog>>

\* Faulty variant of OnOtherError: every error of the primary call is handled
\* like a quota error.
OnOtherErrorFallsBack(r) == OnResourceExhausted(r)

\* except Exception: log and raise e
OnOtherError(r) ==
    /\ gpc' = [gpc EXCEPT ![r] = "raised"]
    /\ raisedErr' = [raisedErr EXCEPT ![r] = "OtherError"]
    /\ UNCHANGED <<activeKey, keyLog>>

PrimaryResourceExhausted(r) ==
    /\ gpc[r] = "primary_call"
    /\ primaryOutcome' = [primaryOutcome EXCEPT ![r] = "quota"]
    /\ OnResourceExhausted(r)
    /\ UNCHANGED <<hasBackup, returned, calls>>
    /\ UNCHANGED hvars
    /\ UNCHANGED ovars
    /\ UNCHANGED nvars

PrimaryOtherError(r) ==
    /\ gpc[r] = "primary_call"
    /\ primaryOutcome' = [primaryOutcome EXCEPT ![r] = "error"]
    /\ OnOtherError(r)
    /\ UNCHANGED <<hasBackup, returned, calls>>
    /\ UNCHANGED hvars
    /\ UNCHANGED ovars
    /\ UNCHANGED nvars

\* the backup call answers: restore the primary key, return response.text
BackupSucceeds(r) ==
    /\ gpc[r] = "backup_call"
    /\ activeKey' = "primary"
    /\ gpc' = [gpc EXCEPT ![r] = "returned"]
    /\ returned' = [returned EXCEPT ![r] = ResponseText("backup")]
    /\ UNCHANGED <<hasBackup, keyLog, primaryOutcome, raisedErr, calls>>
    /\ UNCHANGED hvars
    /\ UNCHANGED ovars
    /\ UNCHANGED nvars

\* Faulty variant of BackupFails: the handler raises without restoring the
\* primary key.
BackupFailsKeyLeft(r) ==
    /\ gpc[r] = "backup_call"
    /\ gpc' = [gpc EXCEPT ![r] = "raised"]
    /\ raisedErr' = [raisedErr EXCEPT ![r] = "ResourceExhausted"]
    /\ UNCHANGED <<hasBackup, activeKey, keyLog, primaryOutcome, returned, calls>>
    /\ UNCHANGED hvars
    /\ UNCHANGED ovars
    /\ UNCHANGED nvars

\* the backup call fails with any Exception: restore the primary key and
\* raise e, the quota error of the primary call
BackupFails(r) ==
    /\ gpc[r] = "backup_call"
    /\ activeKey' = "primary"
    /\ gpc' = [gpc EXCEPT ![r] = "raised"]
    /\ raisedErr' = [raisedErr EXCEPT ![r] = "ResourceExhausted"]
    /\ UNCHANGED <<hasBackup, keyLog, primaryOutcome, returned, calls>>
    /\ UNCHANGED hvars
    /\ UNCHANGED ovars
    /\ UNCHANGED nvars

\* The caller abandons request r while it awaits a generation call: the await
\* raises asyncio.CancelledError, which is a BaseException, so neither
\* 'except ResourceExhausted' nor an 'except Exception' handler runs and the
\* error leaves generate_with_fallback; genai.configure is not called.
Cancelled(r) ==
    /\ gpc[r] \in {"primary_call", "backup_call"}
    /\ gpc' = [gpc EXCEPT ![r] = "raised"]
    /\ raisedErr' = [raisedErr EXCEPT ![r] = "CancelledError"]
    /\ UNCHANGED <<hasBackup, activeKey, keyLog, primaryOutcome, returned, calls>>
    /\ UNCHANGED hvars
    /\ UNCHANGED ovars
    /\ UNCHANGED nvars

\* ------------------------------------------------------------------------
\* The rest of generate_hybrid_response (RAGService): prompt and generation
\* ------------------------------------------------------------------------
\* The methods class PromptTemplates defines (utils/prompt_templates.py).
PromptTemplatesMethods ==
    {"create_rag_prompt", "create_summary_prompt", "create_analysis_prompt",
     "create_hybrid_rag_prompt"}

\* The method _generate_with_hybrid_context_and_user_type_detailed looks up.
PromptMethodCalled == "create_hybrid_rag_prompt_with_user_type"

NoAnswer == [kind |-> "none", provider |-> "not_called", response |-> <<>>]
FailedToGenerateHybridResponse(prov) == [kind |-> "raised", provider |-> prov, response |-> <<>>]

\* hybrid_search raised (the query embedding failed): generate_hybrid_response
\* catches it and raises "Failed to generate hybrid response".
HybridSearchFailed ==
    /\ hpc = "raised"
    /\ hpc' = "done"
    /\ answer' = FailedToGenerateHybridResponse("not_called")
    /\ UNCHANGED <<params, results, poolOutcome, combined_results, context>>
    /\ UNCHANGED gvars
    /\ UNCHANGED <<chunker, ingest, store, found, embedLog>>
    /\ UNCHANGED nvars

\* _generate_with_hybrid_context_and_user_type_detailed and the end of
\* generate_hybrid_response.  The attribute lookup of the prompt method comes
\* first: when PromptTemplates has no such method it raises AttributeError,
\* which is re-raised as "Failed to generate response" and then as "Failed to
\* generate hybrid response", before any provider call.  With the method, the
\* prompt goes to generate_with_fallback, whose answer is returned under
\* 'response' and whose error is re-raised the same way.
GenerateWithHybridContextDetailed ==
    /\ hpc = "context_built"
    /\ hpc' = "done"
    /\ IF PromptMethodCalled \in PromptTemplatesMethods
       THEN \/ answer' = [kind |-> "returned", provider |-> "answered",
                          response |-> ResponseText("primary")]
            \/ answer' = FailedToGenerateHybridResponse("failed")
       ELSE answer' = FailedToGenerateHybridResponse("not_called")
    /\ UNCHANGED <<params, results, poolOutcome, combined_results, context>>
    /\ UNCHANGED gvars
    /\ UNCHANGED <<chunker, ingest, store, found, embedLog>>
    /\ UNCHANGED nvars

\* ------------------------------------------------------------------------
\* Text chunking (utils/text_chunker.py, TextChunker.chunk_text)
\* Texts are sequences of characters over a small alphabet: "a" a lower-case
\* letter, "B" an upper-case letter, "." a sentence terminator, " " a blank
\* and "#" a character _clean_text removes.
\* ------------------------------------------------------------------------
MaxTextLen == 4      \* longest input text drawn character by character
MaxSentences == 3    \* most sentences of an input text of plain prose
MaxWords == 3        \* most words of one sentence of plain prose
MaxChunkSize == 4    \* largest settings.chunk_size, in tokens

Alphabet == {"a", "B", ".", " ", "#"}
WordChars == {"a", "B"}                                 \* \w
UpperChars == {"B"}                                     \* [A-Z]
Terminators == {".", "!", "?"}                          \* [.!?]
KeptPunctuation == {".", ",", ";", ":", "!", "?", "-", "(", ")", "[", "]", "\"", "'"}
IsSpecial(ch) == ch \notin (WordChars \cup Whitespace \cup KeptPunctuation)
SpecialChars == {ch \in Alphabet : IsSpecial(ch)}

\* re.sub(<one or more characters of a class>, ' ', text): every maximal run
\* of characters of the class becomes one blank.
SubRunsWithBlank(text, class) ==
    LET F[i \in 0..Len(text)] ==
            IF i = 0 THEN <<>>
            ELSE IF text[i] \in class
                 THEN IF i > 1 /\ text[i-1] \in class THEN F[i-1] ELSE Append(F[i-1], " ")
                 ELSE Append(F[i-1], text[i])
    IN F[Len(text)]

\* _clean_text: whitespace runs to one blank, runs of other characters than
\* word characters, whitespace and legal punctuation to one blank, strip.
CleanText(text) == Strip(SubRunsWithBlank(SubRunsWithBlank(text, Whitespace), SpecialChars))

\* re.split(r'(?<=[.!?])\s+(?=[A-Z])', text): position i starts a new piece
\* when an upper-case letter stands there behind a whitespace run that
\* follows a terminator.
RunStart(text, i) ==
    CHOOSE j \in 1..i : /\ \A k \in j..(i-1) : text[k] \in Whitespace
                        /\ j = 1 \/ text[j-1] \notin Whitespace
SplitsBefore(text, i) ==
    /\ i > 1
    /\ text[i] \in UpperChars
    /\ text[i-1] \in Whitespace
    /\ RunStart(text, i) > 1
    /\ text[RunStart(text, i) - 1] \in Terminators
PieceOf(text, i) == Cardinality({j \in 1..i : SplitsBefore(text, j)}) + 1
Pieces(text) ==
    IF text = <<>> THEN << <<>> >>
    ELSE [k \in 1..PieceOf(text, Len(text)) |->
             LET ps == {i \in 1..Len(text) : PieceOf(text, i) = k}
                 lo == CHOOSE i \in ps : \A j \in ps : i <= j
                 hi == CHOOSE i \in ps : \A j \in ps : i >= j
             IN SubSeq(text, lo, hi)]

NonEmpty(s) == s # <<>>
StripAll(seq) == [k \in 1..Len(seq) |-> Strip(seq[k])]

\* _split_into_sentences: the pieces, stripped, without the empty ones (the
\* substitution before the split rewrites every match to itself).
SplitIntoSentences(text) == SelectSeq(StripAll(Pieces(text)), NonEmpty)

\* self.encoding.encode of the cl100k_base tokenizer, as far as chunk_text
\* depends on it: a token is a run of letters or one punctuation character,
\* together with the blank in front of it; any further blank is a token of
\* its own.  decode joins the tokens' texts again.
TokenStart(text, i) ==
    \/ i = 1
    \/ text[i] \in Whitespace
    \/ /\ text[i-1] \notin Whitespace
       /\ ~(text[i] \in WordChars /\ text[i-1] \in WordChars)
TokenOf(text, i) == Cardinality({j \in 1..i : TokenStart(text, j)})
TokenCount(text) == IF text = <<>> THEN 0 ELSE TokenOf(text, Len(text))
Encode(text) ==
    [k \in 1..TokenCount(text) |->
        LET ps == {i \in 1..Len(text) : TokenOf(text, i) = k}
            lo == CHOOSE i \in ps : \A j \in ps : i <= j
            hi == CHOOSE i \in ps : \A j \in ps : i >= j
        IN SubSeq(text, lo, hi)]
Decode(tokens) ==
    LET F[k \in 0..Len(tokens)] == IF k = 0 THEN <<>> ELSE F[k-1] \o tokens[k]
    IN F[Len(tokens)]

\* Faulty variant of GetOverlapText: the next chunk starts without overlap.
GetOverlapTextNone(chunk, chunk_overlap) == <<>>

\* _get_overlap_text: the whole chunk when it has at most chunk_overlap
\* tokens, else the text of its last chunk_overlap tokens.
GetOverlapText(chunk, chunk_overlap) ==
    LET tokens == Encode(chunk)
    IN IF Len(tokens) <= chunk_overlap THEN chunk
       ELSE Decode(SubSeq(tokens, Len(tokens) - chunk_overlap + 1, Len(tokens)))

\* _create_chunk_metadata: the fields of a chunk the model follows.
CreateChunkMetadata(chunk_text, chunk_index) ==
    [chunk_text |-> chunk_text, chunk_index |-> chunk_index,
     token_count |-> TokenCount(chunk_text)]

\* Input texts: every text of up to MaxTextLen characters, and plain prose
\* of up to MaxSentences sentences "B a ... a." of up to MaxWords words.
ShortTexts == UNION {[1..n -> Alphabet] : n \in 0..MaxTextLen}
ProseSentence(w) ==
    [i \in 1..(2 * w) |-> IF i = 2 * w THEN "." ELSE IF i = 1 THEN "B"
                          ELSE IF i % 2 = 0 THEN " " ELSE "a"]
Prose(ws) ==
    LET F[k \in 0..Len(ws)] ==
            IF k = 0 THEN <<>>
            ELSE IF k = 1 THEN ProseSentence(ws[k])
            ELSE F[k-1] \o <<" ">> \o ProseSentence(ws[k])
    IN F[Len(ws)]
ProseTexts == {Prose(ws) : ws \in UNION {[1..n -> 1..MaxWords] : n \in 1..MaxSentences}}
InputTexts == ShortTexts \cup ProseTexts

\* settings.chunk_size and settings.chunk_overlap are configuration; the
\* overlap is positive and smaller than the chunk size, as the defaults
\* (1000 and 200) are.
ChunkConfigs == {cfg \in [chunk_size : 2..MaxChunkSize, chunk_overlap : 1..MaxChunkSize] :
                    cfg.chunk_overlap < cfg.chunk_size}

IdleChunker ==
    [pc |-> "idle", chunk_size |-> 2, chunk_overlap |-> 1, text |-> <<>>,
     sentences |-> <<>>, next |-> 1, current_chunk |-> <<>>, current_tokens |-> 0,
     chunk_index |-> 0, chunks |-> <<>>, triggers |-> <<>>]

\* A call chunk_text(text) of a TextChunker built from the settings.
InitChunk ==
    \E cfg \in ChunkConfigs, text \in InputTexts :
        chunker = [IdleChunker EXCEPT !.pc = "clean", !.chunk_size = cfg.chunk_size,
                                      !.chunk_overlap = cfg.chunk_overlap, !.text = text]

\* cleaned_text = self._clean_text(text); sentences =
\* self._split_into_sentences(cleaned_text); chunks = []; current_chunk = "";
\* current_tokens = 0; chunk_index = 0
ChunkTextStart ==
    /\ chunker.pc = "clean"
    /\ chunker' = [chunker EXCEPT !.pc = "loop",
                                  !.sentences = SplitIntoSentences(CleanText(chunker.text))]
    /\ UNCHANGED hvars
    /\ UNCHANGED gvars
    /\ UNCHANGED <<answer, ingest, store, found, embedLog>>
    /\ UNCHANGED nvars

\* One pass of  for sentence in sentences.  triggers (ghost) keeps, for every
\* cut, the sentence that caused it.
ChunkTextSentence ==
    /\ chunker.pc = "loop"
    /\ chunker.next <= Len(chunker.sentences)
    /\ LET sentence == chunker.sentences[chunker.next]
           sentence_tokens == TokenCount(sentence)
           current_chunk == chunker.current_chunk
       IN IF chunker.current_tokens + sentence_tokens > chunker.chunk_size /\ current_chunk # <<>>
          THEN LET overlap_text == GetOverlapText(current_chunk, chunker.chunk_overlap)
                   new_chunk == overlap_text \o <<" ">> \o sentence
               IN chunker' = [chunker EXCEPT
                       !.chunks = Append(@, CreateChunkMetadata(Strip(current_chunk), chunker.chunk_index)),
                       !.current_chunk = new_chunk,
                       !.current_tokens = TokenCount(new_chunk),
                       !.chunk_index = @ + 1,
                       !.triggers = Append(@, sentence),
                       !.next = @ + 1]
          ELSE chunker' = [chunker EXCEPT
                       !.current_chunk = @ \o <<" ">> \o sentence,
                       !.current_tokens = @ + sentence_tokens,
                       !.next = @ + 1]
    /\ UNCHANGED hvars
    /\ UNCHANGED gvars
    /\ UNCHANGED <<answer, ingest, store, found, embedLog>>
    /\ UNCHANGED nvars

\* Faulty variant of ChunkTextReturn: the final chunk is appended without
\* looking at current_chunk.strip().
ChunkTextReturnAlways ==
    /\ chunker.pc = "loop"
    /\ chunker.next > Len(chunker.sentences)
    /\ chunker' = [chunker EXCEPT
           !.pc = "returned",
           !.chunks = Append(@, CreateChunkMetadata(Strip(chunker.current_chunk), chunker.chunk_index))]
    /\ UNCHANGED hvars
    /\ UNCHANGED gvars
    /\ UNCHANGED <<answer, ingest, store, found, embedLog>>
    /\ UNCHANGED nvars

\* Faulty variant of ChunkTextReturn: chunks is returned as the loop left it,
\* without the final chunk.
ChunkTextReturnWithoutFinal ==
    /\ chunker.pc = "loop"
    /\ chunker.next > Len(chunker.sentences)
    /\ chunker' = [chunker EXCEPT !.pc = "returned"]
    /\ UNCHANGED hvars
    /\ UNCHANGED gvars
    /\ UNCHANGED <<answer, ingest, store, found, embedLog>>
    /\ UNCHANGED nvars

\* After the loop: the final chunk when current_chunk.strip() is not empty,
\* and return chunks.
ChunkTextReturn ==
    /\ chunker.pc = "loop"
    /\ chunker.next > Len(chunker.sentences)
    /\ chunker' = [chunker EXCEPT
           !.pc = "returned",
           !.chunks = IF Strip(chunker.current_chunk) # <<>>
                      THEN Append(@, CreateChunkMetadata(Strip(chunker.current_chunk), chunker.chunk_index))
                      ELSE @]
    /\ UNCHANGED hvars
    /\ UNCHANGED gvars
    /\ UNCHANGED <<answer, ingest, store, found, embedLog>>
    /\ UNCHANGED nvars

\* ------------------------------------------------------------------------
\* The document store (tables documents and document_chunks) and the pool
\* adapters of services/vector_store.py.  A chunk row carries the cosine of
\* its embedding with the query embedding (scaled by 100) and whether the
\* two vectors have the same number of dimensions.
\* ------------------------------------------------------------------------
MaxLimit == 2        \* largest limit a pool adapter is called with
MaxChunks == 11      \* most chunks of one processed document
MaxRaceChunks == 2   \* most chunks of a document stored while searches run

EmbedBatchSize == 10             \* EmbeddingService.batch_size
StoreBatchSize == 50             \* batch_size of _store_document_chunks
OversampleFactor == 3            \* .limit(limit * 3) of the fallback queries
SessionDefaultSimilarity == 80   \* 'similarity': 0.8 of the session fallback
SessionMatchThreshold == 70      \* 'match_threshold': 0.7 of the session rpc
DefaultThreshold == 70           \* similarity_threshold: float = 0.7
HybridThreshold == 50            \* similarity_threshold=0.5 passed by hybrid_search

Users == {"u1", "u2"}
Sessions == {"s1", "s2"}
NoUser == "none"
NoSession == "none"
Thresholds == {HybridThreshold, DefaultThreshold}

EmptyStore == [documents |-> {}, chunks |-> {}]

\* The documents the store can hold before the run: an active and a retired
\* public document of the knowledge base, and a private document of each user
\* attached to a session of that user.
Catalogue ==
    << [id |-> 1, user_id |-> "admin", is_public |-> TRUE,  is_active |-> TRUE,
        chat_session_id |-> NoSession, processing_status |-> "completed"],
       [id |-> 2, user_id |-> "admin", is_public |-> TRUE,  is_active |-> FALSE,
        chat_session_id |-> NoSession, processing_status |-> "completed"],
       [id |-> 3, user_id |-> "u1",    is_public |-> FALSE, is_active |-> TRUE,
        chat_session_id |-> "s1",      processing_status |-> "completed"],
       [id |-> 4, user_id |-> "u2",    is_public |-> FALSE, is_active |-> TRUE,
        chat_session_id |-> "s2",      processing_status |-> "completed"] >>

\* The two chunks a catalogue document can have: cosines of chunk 0 and of
\* chunk 1, and whether chunk 1 has the dimensions of the query embedding.
ChunkProfiles ==
    { [c0 |-> 80, c1 |-> 60, dims1 |-> TRUE],
      [c0 |-> 60, c1 |-> 80, dims1 |-> TRUE],
      [c0 |-> 40, c1 |-> 80, dims1 |-> TRUE],
      [c0 |-> 80, c1 |-> 80, dims1 |-> FALSE] }
ProfileChunks(id, pr) ==
    { [document_id |-> id, chunk_index |-> 0, cosine |-> pr.c0, same_dims |-> TRUE],
      [document_id |-> id, chunk_index |-> 1, cosine |-> pr.c1, same_dims |-> pr.dims1] }
PresetStores ==
    { [documents |-> {Catalogue[i] : i \in present},
       chunks |-> UNION {ProfileChunks(i, prof[i]) : i \in present}] :
          present \in SUBSET (1..Len(Catalogue)), prof \in [1..Len(Catalogue) -> ChunkProfiles] }

Doc(id) == CHOOSE d \in store.documents : d.id = id

\* Rows of a set of chunks in the order of document id and chunk index.
ChunkBefore(c1, c2) ==
    \/ c1.document_id < c2.document_id
    \/ c1.document_id = c2.document_id /\ c1.chunk_index < c2.chunk_index
SeqOfChunks(S) ==
    [k \in 1..Cardinality(S) |->
        CHOOSE c \in S : Cardinality({x \in S : ChunkBefore(x, c)}) = k - 1]

\* The arguments a pool adapter can be called with.
Queries(pool) ==
    CASE pool = "public" -> [user_id : {NoUser}, session_id : {NoSession},
                             limit : 1..MaxLimit, threshold : Thresholds]
      [] pool = "user" -> [user_id : Users, session_id : {NoSession},
                           limit : 1..MaxLimit, threshold : Thresholds]
      [] pool = "session" -> [user_id : {NoUser}, session_id : Sessions,
                              limit : 1..MaxLimit, threshold : {SessionMatchThreshold}]

SearchRow(pool, c, sim) ==
    [document_id |-> c.document_id, chunk_index |-> c.chunk_index,
     similarity |-> sim, source_type |-> pool]

\* chunks.sort(key=lambda x: x['similarity'], reverse=True): stable.
SimilarityRank(seq, i) ==
    Cardinality({j \in 1..Len(seq) :
        \/ seq[j].similarity > seq[i].similarity
        \/ seq[j].similarity = seq[i].similarity /\ j < i}) + 1
SortBySimilarityDesc(seq) ==
    [k \in 1..Len(seq) |-> seq[CHOOSE i \in 1..Len(seq) : SimilarityRank(seq, i) = k]]

\* The rpc functions search_public_documents, search_user_documents and
\* search_session_documents of the database, as the specification describes
\* the store's own search: the pool's filter, only documents whose
\* processing has completed, similarity at least match_threshold, highest
\* first, at most match_count rows.
RpcFilter(pool, d, q) ==
    /\ d.processing_status = "completed"
    /\ CASE pool = "public" -> d.is_public /\ d.is_active
         [] pool = "user" -> d.user_id = q.user_id /\ ~d.is_public
         [] pool = "session" -> d.chat_session_id = q.session_id
RpcRows(pool, q) ==
    LET matching == {c \in store.chunks :
                        /\ RpcFilter(pool, Doc(c.document_id), q)
                        /\ c.same_dims
                        /\ c.cosine >= q.threshold}
        scored == [k \in 1..Cardinality(matching) |->
                      SearchRow(pool, SeqOfChunks(matching)[k], SeqOfChunks(matching)[k].cosine)]
    IN Prefix(SortBySimilarityDesc(scored), q.limit)

\* Faulty variant of FallbackFilter: the user query does not compare the
\* owner, the public query does not look at is_active, the session query
\* takes the documents of every session.
FallbackFilterLoose(pool, d, q) ==
    CASE pool = "public" -> d.is_public
      [] pool = "user" -> ~d.is_public
      [] pool = "session" -> d.chat_session_id # NoSession

\* The filters of the fallback queries:
\*   .eq('documents.is_public', True).eq('documents.is_active', True)
\*   .eq('documents.user_id', user_id).eq('documents.is_public', False)
\*   .eq('documents.chat_session_id', session_id)
FallbackFilter(pool, d, q) ==
    CASE pool = "public" -> d.is_public /\ d.is_active
      [] pool = "user" -> d.user_id = q.user_id /\ ~d.is_public
      [] pool = "session" -> d.chat_session_id = q.session_id

\* .limit(limit * 3) for the public and the user pool, .limit(limit) for the
\* session pool.
FallbackFetchLimit(pool, q) ==
    IF pool = "session" THEN q.limit ELSE q.limit * OversampleFactor

\* What a fallback query can answer: the query has no ORDER BY, so any
\* FallbackFetchLimit of the matching rows (all of them when there are
\* fewer), here in the order of document id and chunk index.
FallbackFetch(pool, q) ==
    LET matching == {c \in store.chunks : FallbackFilter(pool, Doc(c.document_id), q)}
        m == IF Cardinality(matching) <= FallbackFetchLimit(pool, q)
             THEN Cardinality(matching) ELSE FallbackFetchLimit(pool, q)
    IN {SeqOfChunks(T) : T \in {S \in SUBSET matching : Cardinality(S) = m}}

\* The similarity the fallback gives a fetched chunk: the cosine when the
\* chunk has an embedding of the query's length, else 0.0; the session
\* fallback gives every chunk 0.8.
FallbackSimilarity(pool, c) ==
    IF pool = "session" THEN SessionDefaultSimilarity
    ELSE IF c.same_dims THEN c.cosine ELSE 0

\* Faulty variant of FallbackRows: no threshold, and the fetched rows are
\* returned beyond limit.
FallbackRowsUnfiltered(pool, fetched, q) ==
    [k \in 1..Len(fetched) |-> SearchRow(pool, fetched[k], FallbackSimilarity(pool, fetched[k]))]

\* The fallback's work on the fetched rows: score; for the public and the
\* user pool keep similarity >= similarity_threshold, sort highest first and
\* cut to limit; for the session pool return the rows as fetched.
FallbackRows(pool, fetched, q) ==
    LET scored == [k \in 1..Len(fetched) |->
                      SearchRow(pool, fetched[k], FallbackSimilarity(pool, fetched[k]))]
        AboveThreshold(r) == r.similarity >= q.threshold
    IN IF pool = "session" THEN scored
       ELSE Prefix(SortBySimilarityDesc(SelectSeq(scored, AboveThreshold)), q.limit)

NoSearch == [pool |-> "none",
             q |-> [user_id |-> NoUser, session_id |-> NoSession, limit |-> 1,
                    threshold |-> DefaultThreshold],
             path |-> "none", rows |-> <<>>, docs_then |-> {}, fetched |-> <<>>]

\* One call of search_public_documents, search_user_documents or
\* search_session_documents: the rpc rows when the rpc returns any; the
\* fallback query when result.data is empty (nothing matched, or the database
\* has no working search function); [] when a store call raises.  A run
\* follows one adapter call, made at any moment; docs_then (ghost) keeps the
\* table documents as it was at the call, fetched (ghost) the rows the
\* fallback query answered with.
SearchAdapter ==
    /\ found = NoSearch
    /\ \E pool \in PoolSet : \E q \in Queries(pool) :
         \/ /\ RpcRows(pool, q) # <<>>
            /\ found' = [pool |-> pool, q |-> q, path |-> "rpc", rows |-> RpcRows(pool, q),
                         docs_then |-> store.documents, fetched |-> <<>>]
         \/ \E fetched \in FallbackFetch(pool, q) :
                found' = [pool |-> pool, q |-> q, path |-> "fallback",
                          rows |-> FallbackRows(pool, fetched, q),
                          docs_then |-> store.documents, fetched |-> fetched]
         \/ found' = [pool |-> pool, q |-> q, path |-> "error", rows |-> <<>>,
                      docs_then |-> store.documents, fetched |-> <<>>]
    /\ UNCHANGED hvars
    /\ UNCHANGED gvars
    /\ UNCHANGED <<answer, chunker, ingest, store, embedLog>>
    /\ UNCHANGED nvars

\* ------------------------------------------------------------------------
\* Document processing: RAGService.process_document,
\* EmbeddingService.generate_chunk_embeddings and
\* VectorStore.store_processed_document.  Every call of the store is one
\* step: the store is shared with every other client of the database.
\* ------------------------------------------------------------------------
IdleIngest ==
    [pc |-> "idle", user_id |-> "u1", session_id |-> NoSession, n |-> 0,
     embedded |-> 0, processed |-> 0, document_id |-> 0, stored |-> 0,
     failed_at |-> "none"]

\* process_document has chunked the text into n chunks and calls
\* generate_chunk_embeddings.
InitIngest(maxn) ==
    \E n \in 0..maxn, sid \in {NoSession, "s1"} :
        ingest = [IdleIngest EXCEPT !.pc = "embedding", !.n = n, !.session_id = sid]

NextDocId == Len(Catalogue) + 1

\* The cosine with the query of the embedding of the chunk with index i of
\* the document being processed.
UploadedCosine(i) == <<80, 60, 40>>[(i % 3) + 1]

\* generate_embedding answers for the next chunk; at the end of a batch of
\* batch_size chunks the batch joins processed_chunks.
EmbedChunk ==
    /\ ingest.pc = "embedding"
    /\ ingest.embedded < ingest.n
    /\ ingest' = [ingest EXCEPT
           !.embedded = @ + 1,
           !.processed = IF (ingest.embedded + 1) % EmbedBatchSize = 0
                            \/ ingest.embedded + 1 = ingest.n
                         THEN ingest.embedded + 1 ELSE @]
    /\ UNCHANGED hvars
    /\ UNCHANGED gvars
    /\ UNCHANGED <<answer, chunker, store, found, embedLog>>
    /\ UNCHANGED nvars

\* Faulty variant of OnEmbeddingError: the chunks of the batches embedded so
\* far are stored and the rest is skipped.
OnEmbeddingErrorStoresPartial ==
    /\ ingest' = [ingest EXCEPT !.failed_at = "embedding"]
    /\ store' = [documents |-> store.documents \cup
                     {[id |-> NextDocId, user_id |-> ingest.user_id, is_public |-> FALSE,
                       is_active |-> TRUE, chat_session_id |-> ingest.session_id,
                       processing_status |-> "processing"]},
                 chunks |-> store.chunks \cup
                     {[document_id |-> NextDocId, chunk_index |-> i,
                       cosine |-> UploadedCosine(i), same_dims |-> TRUE] : i \in 0..(ingest.processed - 1)}]

\* generate_embedding raises: generate_embeddings_batch, then
\* generate_chunk_embeddings, then process_document re-raise; the store has
\* not been called.
OnEmbeddingError ==
    /\ ingest' = [ingest EXCEPT !.pc = "raised", !.failed_at = "embedding"]
    /\ UNCHANGED store

EmbedChunkFails ==
    /\ ingest.pc = "embedding"
    /\ ingest.embedded < ingest.n
    /\ OnEmbeddingError
    /\ UNCHANGED hvars
    /\ UNCHANGED gvars
    /\ UNCHANGED <<answer, chunker, found, embedLog>>
    /\ UNCHANGED nvars

\* generate_chunk_embeddings has returned; store_processed_document inserts
\* the document row with processing_status 'processing' (is_active is left
\* to the column default).
InsertDocument ==
    /\ ingest.pc = "embedding"
    /\ ingest.embedded = ingest.n
    /\ store' = [store EXCEPT !.documents = @ \cup
                     {[id |-> NextDocId, user_id |-> ingest.user_id, is_public |-> FALSE,
                       is_active |-> TRUE, chat_session_id |-> ingest.session_id,
                       processing_status |-> "processing"]}]
    /\ ingest' = [ingest EXCEPT !.document_id = NextDocId,
                                !.pc = IF ingest.n = 0 THEN "update_status" ELSE "insert_chunks"]
    /\ UNCHANGED hvars
    /\ UNCHANGED gvars
    /\ UNCHANGED <<answer, chunker, found, embedLog>>
    /\ UNCHANGED nvars

\* _store_document_chunks: insert the next batch of at most batch_size chunk
\* records.
InsertChunkBatch ==
    /\ ingest.pc = "insert_chunks"
    /\ LET upto == IF ingest.stored + StoreBatchSize >= ingest.n THEN ingest.n
                   ELSE ingest.stored + StoreBatchSize
       IN /\ store' = [store EXCEPT !.chunks = @ \cup
                          {[document_id |-> ingest.document_id, chunk_index |-> i,
                            cosine |-> UploadedCosine(i), same_dims |-> TRUE] :
                               i \in ingest.stored..(upto - 1)}]
          /\ ingest' = [ingest EXCEPT !.stored = upto,
                                      !.pc = IF upto = ingest.n THEN "update_status" ELSE @]
    /\ UNCHANGED hvars
    /\ UNCHANGED gvars
    /\ UNCHANGED <<answer, chunker, found, embedLog>>
    /\ UNCHANGED nvars

\* update({'processing_status': 'completed'}).eq('id', document_id), and
\* return document_id
UpdateStatusCompleted ==
    /\ ingest.pc = "update_status"
    /\ store' = [store EXCEPT !.documents =
                     {IF d.id = ingest.document_id
                      THEN [d EXCEPT !.processing_status = "completed"] ELSE d : d \in @}]
    /\ ingest' = [ingest EXCEPT !.pc = "returned"]
    /\ UNCHANGED hvars
    /\ UNCHANGED gvars
    /\ UNCHANGED <<answer, chunker, found, embedLog>>
    /\ UNCHANGED nvars

\* A call of the store raises (or an insert answers without data):
\* store_processed_document and process_document re-raise; what was written
\* before stays.
StoreCallFails ==
    /\ \/ ingest.pc = "embedding" /\ ingest.embedded = ingest.n
       \/ ingest.pc \in {"insert_chunks", "update_status"}
    /\ ingest' = [ingest EXCEPT !.pc = "raised", !.failed_at = "store"]
    /\ UNCHANGED hvars
    /\ UNCHANGED gvars
    /\ UNCHANGED <<answer, chunker, store, found, embedLog>>
    /\ UNCHANGED nvars

\* ------------------------------------------------------------------------
\* Embedding calls of concurrent requests
\* ------------------------------------------------------------------------
MaxEmbeds == 2       \* embedding calls of one request in one run

\* generate_query_embedding: genai.embed_content(...) is a call of the module
\* google.generativeai and goes out with the api key genai.configure set
\* last.  A request embeds its query before it generates.
EmbedQuery(r) ==
    /\ gpc[r] \in {"idle", "returned", "raised"}
    /\ Len(embedLog[r]) < MaxEmbeds
    /\ embedLog' = [embedLog EXCEPT ![r] = Append(@, activeKey)]
    /\ UNCHANGED hvars
    /\ UNCHANGED gvars
    /\ UNCHANGED <<answer, chunker, ingest, store, found>>
    /\ UNCHANGED nvars

\* ------------------------------------------------------------------------
\* VectorStore._calculate_cosine_similarity on Python floats.  A float is a
\* binary floating-point number m * 2^e with a mantissa of FloatBits bits;
\* sqrt, * and / give the representable number nearest to the exact result,
\* ties to the even mantissa (IEEE 754, which Python follows with 53 bits).
\* Sums of products of the small whole numbers used here are exact.
\* ------------------------------------------------------------------------
FloatBits == 7       \* bits of the mantissa of a float
MaxDims == 2         \* most dimensions of a vector
MaxComponent == 2    \* largest absolute value of a vector component

RECURSIVE Pow2(_)
Pow2(k) == IF k = 0 THEN 1 ELSE 2 * Pow2(k - 1)

FloatZero == [m |-> 0, e |-> 0]
FloatOne == [m |-> Pow2(FloatBits - 1), e |-> 1 - FloatBits]
Shifts == (0 - FloatBits - 1)..(2 * FloatBits)

\* The float nearest to (n / d) * 2^e0, for whole numbers n > 0 and d > 0.
RoundToFloat(n, d, e0) ==
    LET Num(s) == IF s > 0 THEN n * Pow2(s) ELSE n
        Den(s) == IF s < 0 THEN d * Pow2(0 - s) ELSE d
        s == CHOOSE k \in Shifts :
                 /\ Pow2(FloatBits - 1) * Den(k) <= Num(k)
                 /\ Num(k) < Pow2(FloatBits) * Den(k)
        fl == Num(s) \div Den(s)
        rem == Num(s) % Den(s)
        m == IF 2 * rem < Den(s) THEN fl
             ELSE IF 2 * rem > Den(s) THEN fl + 1
             ELSE IF fl % 2 = 0 THEN fl ELSE fl + 1
    IN IF m = Pow2(FloatBits) THEN [m |-> Pow2(FloatBits - 1), e |-> e0 - s + 1]
       ELSE [m |-> m, e |-> e0 - s]

\* math.sqrt(n) for a whole number n > 0: the float nearest to the root.
FloatSqrt(n) ==
    LET s == CHOOSE k \in 0..FloatBits :
                 /\ Pow2(FloatBits - 1) * Pow2(FloatBits - 1) <= n * Pow2(2 * k)
                 /\ n * Pow2(2 * k) < Pow2(FloatBits) * Pow2(FloatBits)
        x == n * Pow2(2 * s)
        r == CHOOSE k \in Pow2(FloatBits - 1)..(Pow2(FloatBits) - 1) :
                 k * k <= x /\ x < (k + 1) * (k + 1)
        m == IF x - r * r > r THEN r + 1 ELSE r
    IN IF m = Pow2(FloatBits) THEN [m |-> Pow2(FloatBits - 1), e |-> 1 - s]
       ELSE [m |-> m, e |-> 0 - s]

\* magnitude1 * magnitude2
FloatMul(x, y) == RoundToFloat(x.m * y.m, 1, x.e + y.e)

\* dot_product / (magnitude1 * magnitude2) for a whole dot_product > 0
FloatDivInt(n, y) == RoundToFloat(n, y.m, 0 - y.e)

\* x > 1.0 for a float x > 0
AboveOne(x) == IF x.e >= 0 THEN x.m * Pow2(x.e) > 1 ELSE x.m > Pow2(0 - x.e)

\* A stored component that is no number (a null of the json column), written
\* as a value outside the range of the numbers.
NotANumber == MaxComponent + 1
Components == ((0 - MaxComponent)..MaxComponent) \cup {NotANumber}
Vectors == UNION {[1..n -> Components] : n \in 0..MaxDims}
Numeric(v) == \A i \in 1..Len(v) : v[i] # NotANumber

RECURSIVE SumProducts(_, _, _)
SumProducts(v, w, i) ==
    IF i > Len(v) THEN 0 ELSE v[i] * w[i] + SumProducts(v, w, i + 1)

NoCosine == [pc |-> "idle", vector1 |-> <<>>, vector2 |-> <<>>,
             outcome |-> "none", value |-> FloatZero]
InitCosine ==
    \E v \in Vectors, w \in Vectors :
        cosine = [NoCosine EXCEPT !.pc = "called", !.vector1 = v, !.vector2 = w]

\* similarity = dot_product / (magnitude1 * magnitude2)
\* return max(0.0, min(1.0, similarity))
ClampedSimilarity(dot_product, magnitude1, magnitude2) ==
    LET similarity == FloatDivInt(dot_product, FloatMul(magnitude1, magnitude2))
    IN IF dot_product <= 0 THEN FloatZero
       ELSE IF AboveOne(similarity) THEN FloatOne ELSE similarity

\* The body of the try block: 0.0 for vectors of different lengths and for a
\* magnitude of 0.
CosineValue(vector1, vector2) ==
    IF Len(vector1) # Len(vector2) THEN FloatZero
    ELSE LET dot_product == SumProducts(vector1, vector2, 1)
             sq1 == SumProducts(vector1, vector1, 1)
             sq2 == SumProducts(vector2, vector2, 1)
         IN IF sq1 = 0 \/ sq2 = 0 THEN FloatZero
            ELSE ClampedSimilarity(dot_product, FloatSqrt(sq1), FloatSqrt(sq2))

\* One call of _calculate_cosine_similarity.  Multiplying a component that is
\* no number raises TypeError inside the try block: except Exception logs and
\* returns 0.0.
CalculateCosineSimilarity ==
    /\ cosine.pc = "called"
    /\ IF Len(cosine.vector1) = Len(cosine.vector2)
          /\ ~(Numeric(cosine.vector1) /\ Numeric(cosine.vector2))
       THEN cosine' = [cosine EXCEPT !.pc = "done", !.outcome = "caught", !.value = FloatZero]
       ELSE cosine' = [cosine EXCEPT !.pc = "done", !.outcome = "returned",
                           !.value = CosineValue(cosine.vector1, cosine.vector2)]
    /\ UNCHANGED hvars
    /\ UNCHANGED gvars
    /\ UNCHANGED ovars
    /\ UNCHANGED <<embedding, limited, rate, chat>>

\* ------------------------------------------------------------------------
\* EmbeddingService.generate_embedding (document text) and
\* generate_query_embedding (query text): what is sent to the provider
\* (genai.embed_content).
\* ------------------------------------------------------------------------
MaxInputLen == 3     \* longest text passed to an embedding method

EmbedMaxChars == 20000   \* max_chars of _clean_text

EmbedAlphabet == {"a", "b", " ", "\n"}
EmbedInputs == UNION {[1..n -> EmbedAlphabet] : n \in 0..MaxInputLen}
EmbedMethods == {"generate_embedding", "generate_query_embedding"}

\* ' '.join(text.split()): the words of the text with one blank between them.
RECURSIVE JoinSplit(_, _, _)
JoinSplit(text, i, out) ==
    IF i > Len(text) THEN out
    ELSE IF text[i] \in Whitespace THEN JoinSplit(text, i + 1, out)
    ELSE IF out # <<>> /\ text[i - 1] \in Whitespace
         THEN JoinSplit(text, i + 1, out \o <<" ", text[i]>>)
         ELSE JoinSplit(text, i + 1, Append(out, text[i]))

\* EmbeddingService._clean_text
CleanEmbedText(text) ==
    IF text = <<>> THEN <<>>
    ELSE LET cleaned == JoinSplit(text, 1, <<>>)
         IN IF Len(cleaned) > EmbedMaxChars THEN Prefix(cleaned, EmbedMaxChars) ELSE cleaned

NotSent == <<"not sent">>
NoEmbedding == [pc |-> "idle", method |-> "generate_embedding", text |-> <<>>,
                sent |-> NotSent, outcome |-> "none"]
InitEmbedding ==
    \E method \in EmbedMethods, text \in EmbedInputs :
        embedding = [NoEmbedding EXCEPT !.pc = "called", !.method = method, !.text = text]

\* if not text or not text.strip(): raise ValueError("Text cannot be empty")
\* stands in generate_embedding only.
RejectsInput(method, text) ==
    method = "generate_embedding" /\ (text = <<>> \/ Strip(text) = <<>>)

\* The method up to its call of the provider: the text is rejected (the
\* ValueError is wrapped and raised again), or cleaned and sent.
EmbedSend ==
    /\ embedding.pc = "called"
    /\ IF RejectsInput(embedding.method, embedding.text)
       THEN embedding' = [embedding EXCEPT !.pc = "done", !.outcome = "rejected"]
       ELSE embedding' = [embedding EXCEPT !.pc = "sent",
                              !.sent = CleanEmbedText(embedding.text)]
    /\ UNCHANGED hvars
    /\ UNCHANGED gvars
    /\ UNCHANGED ovars
    /\ UNCHANGED <<cosine, limited, rate, chat>>

\* genai.embed_content answers with an embedding, or raises and the method
\* raises "Failed to generate ... embedding".
EmbedAnswer ==
    /\ embedding.pc = "sent"
    /\ \E o \in {"returned", "provider_error"} :
           embedding' = [embedding EXCEPT !.pc = "done", !.outcome = o]
    /\ UNCHANGED hvars
    /\ UNCHANGED gvars
    /\ UNCHANGED ovars
    /\ UNCHANGED <<cosine, limited, rate, chat>>

\* ------------------------------------------------------------------------
\* hybrid_search called with a limit: the public and the user pool are asked
\* for limit//2 results, the session pool for limit//3, and the three lists
\* go to _combine_and_rank_results; its return value is 'results'.
\* ------------------------------------------------------------------------
MaxHybridLimit == 4  \* largest limit hybrid_search is called with

LimitOf(p, limit) == IF p = "session" THEN limit \div 3 ELSE limit \div 2

\* Rows of the chunks a pool can return, best first.
LimitedRows == [chunk_content : ContentIds \cup MoreContentIds, similarity : {80}]
LimitedLists(n) == UNION {[1..k -> LimitedRows] : k \in 0..n}

NoLimited == [pc |-> "idle", limit |-> 1, has_session |-> FALSE,
              results |-> EmptyResults, combined_results |-> <<>>]
InitLimited ==
    \E limit \in 1..MaxHybridLimit, has_session \in BOOLEAN :
        limited = [NoLimited EXCEPT !.pc = "public", !.limit = limit,
                                    !.has_session = has_session]

\* One pool's search with the limit hybrid_search passes: the adapter answers
\* with at most that many rows (an error of the search gives []).  The
\* session pool is searched when a session id is given.
LimitedSearch(p, here, next) ==
    /\ limited.pc = here
    /\ IF p = "session" /\ ~limited.has_session
       THEN limited' = [limited EXCEPT !.pc = next]
       ELSE \E rows \in LimitedLists(LimitOf(p, limited.limit)) :
                limited' = [limited EXCEPT !.pc = next,
                                           !.results[ResultKey(p)] = WithIds(p, rows)]
    /\ UNCHANGED hvars
    /\ UNCHANGED gvars
    /\ UNCHANGED ovars
    /\ UNCHANGED <<cosine, embedding, rate, chat>>

LimitedSearchPublic == LimitedSearch("public", "public", "user")
LimitedSearchUser == LimitedSearch("user", "user", "session")
LimitedSearchSession == LimitedSearch("session", "session", "combine")

\* combined_results = self._combine_and_rank_results(results), returned as
\* 'results' without a cut to limit.
LimitedCombine ==
    /\ limited.pc = "combine"
    /\ limited' = [limited EXCEPT !.pc = "returned",
                                  !.combined_results = CombineAndRankResults(limited.results)]
    /\ UNCHANGED hvars
    /\ UNCHANGED gvars
    /\ UNCHANGED ovars
    /\ UNCHANGED <<cosine, embedding, rate, chat>>

\* ------------------------------------------------------------------------
\* The daily query limit: check_query_rate_limit runs before the endpoint
\* (a dependency of chat_query and send_chat_message), increment_query_count
\* after the answer was generated.  The requests are those of one user with
\* an active subscription to a limited plan, on one day; every call of the
\* database is one step.
\* ------------------------------------------------------------------------
MaxDailyLimit == 2   \* largest daily_query_limit of the plan
NRateReq == 2        \* concurrent requests of the user

RateRequests == 1..NRateReq
NoRecord == -1       \* the select of increment_daily_usage found no row

\* rows: query_count of the user's rows of today in daily_query_usage;
\* answered (ghost): the queries of the day answered so far, those before the
\* run (all counted) included.
NoRate == [daily_limit |-> 1, rows |-> <<>>,
           pc |-> [r \in RateRequests |-> "idle"],
           record |-> [r \in RateRequests |-> NoRecord],
           answered |-> 0]
InitRate ==
    \E daily_limit \in 1..MaxDailyLimit, used \in 0..MaxDailyLimit :
        /\ used <= daily_limit
        /\ rate = [NoRate EXCEPT !.daily_limit = daily_limit,
                                 !.rows = IF used = 0 THEN <<>> ELSE <<used>>,
                                 !.answered = used,
                                 !.pc = [r \in RateRequests |-> "check"]]

\* get_daily_usage: select(...).single() gives the row's query_count; with no
\* row or with several rows single() raises and the handler returns 0.
GetDailyUsage == IF Len(rate.rows) = 1 THEN rate.rows[1] ELSE 0

\* if current_usage >= daily_limit: return False, {... 'daily_limit_exceeded'}
LimitReached(current_usage, daily_limit) == current_usage >= daily_limit

\* check_rate_limit for a limited plan: the request is refused with status
\* 429 or goes on to the endpoint.
CheckRateLimit(r) ==
    /\ rate.pc[r] = "check"
    /\ rate' = [rate EXCEPT !.pc[r] = IF LimitReached(GetDailyUsage, rate.daily_limit)
                                      THEN "refused" ELSE "generate"]
    /\ UNCHANGED hvars
    /\ UNCHANGED gvars
    /\ UNCHANGED ovars
    /\ UNCHANGED <<cosine, embedding, limited, chat>>

\* result = await rag_service.generate_hybrid_response(...): the call returns
\* the answer, or raises and the endpoint answers with status 500 without
\* counting the query.
GenerateAnswer(r) ==
    /\ rate.pc[r] = "generate"
    /\ \E next \in {"increment_select", "failed"} : rate' = [rate EXCEPT !.pc[r] = next]
    /\ UNCHANGED hvars
    /\ UNCHANGED gvars
    /\ UNCHANGED ovars
    /\ UNCHANGED <<cosine, embedding, limited, chat>>

\* increment_daily_usage, the select: result.data[0] when there is a row.
IncrementSelect(r) ==
    /\ rate.pc[r] = "increment_select"
    /\ rate' = [rate EXCEPT !.pc[r] = "increment_write",
                            !.record[r] = IF rate.rows = <<>> THEN NoRecord ELSE rate.rows[1]]
    /\ UNCHANGED hvars
    /\ UNCHANGED gvars
    /\ UNCHANGED ovars
    /\ UNCHANGED <<cosine, embedding, limited, chat>>

\* increment_daily_usage, the write: update the row read to query_count + 1,
\* or insert a row with query_count 1 (a second row of the day when another
\* request has inserted one meanwhile); then the endpoint returns the answer.
IncrementWrite(r) ==
    /\ rate.pc[r] = "increment_write"
    /\ rate' = [rate EXCEPT
           !.pc[r] = "answered",
           !.answered = @ + 1,
           !.rows = IF rate.record[r] = NoRecord THEN Append(@, 1)
                    ELSE [@ EXCEPT ![1] = rate.record[r] + 1]]
    /\ UNCHANGED hvars
    /\ UNCHANGED gvars
    /\ UNCHANGED ovars
    /\ UNCHANGED <<cosine, embedding, limited, chat>>

\* A call of increment_daily_usage raises (the store is unreachable, or it
\* refuses the second row of the day): increment_query_count logs the error
\* and passes, and the endpoint returns the answer.
IncrementFails(r) ==
    /\ rate.pc[r] \in {"increment_select", "increment_write"}
    /\ rate' = [rate EXCEPT !.pc[r] = "answered", !.answered = @ + 1]
    /\ UNCHANGED hvars
    /\ UNCHANGED gvars
    /\ UNCHANGED ovars
    /\ UNCHANGED <<cosine, embedding, limited, chat>>

\* ------------------------------------------------------------------------
\* A chat message: send_chat_message (main.py) calls generate_hybrid_response
\* with the session id of the request path and include_user_docs=False.
\* hybrid_search asks the public pool (when include_public) and the session
\* pool, merges, and the merged list is relevant_chunks, returned under
\* 'sources'.
\* ------------------------------------------------------------------------
\* The text of a stored chunk: the rows of the store's searches carry 'id'
\* and 'chunk_content'; every chunk of the catalogue has a text of its own
\* among those a query can see together.
ChunkContentTable ==
    [d \in 1..Len(Catalogue) |->
        IF Catalogue[d].is_public THEN <<"c4", "c5">> ELSE <<"c6", "c3">>]
SourceRow(r) ==
    [id |-> <<r.document_id, r.chunk_index>>,
     chunk_content |-> ChunkContentTable[r.document_id][r.chunk_index + 1],
     similarity |-> r.similarity]
SourceRows(rows) == [k \in 1..Len(rows) |-> SourceRow(rows[k])]

NoChat == [pc |-> "idle", user_id |-> "u1", session_id |-> "s1", include_public |-> TRUE,
           public_results |-> <<>>, session_results |-> <<>>, sources |-> <<>>,
           response |-> "none"]

\* The request: the authenticated user, the session id of the path (any
\* session id: the handler does not look the session up), include_public of
\* the body.
InitChat ==
    chat \in [pc : {"search_public"}, user_id : Users, session_id : Sessions,
              include_public : BOOLEAN, public_results : {<<>>},
              session_results : {<<>>}, sources : {<<>>}, response : {"none"}]

\* The arguments hybrid_search gives the pool adapters: limit // 2 and 0.5
\* for the public pool, limit // 3 and the adapter's own threshold for the
\* session pool, with limit = settings.top_k.
ChatQuery(pool) ==
    IF pool = "public"
    THEN [user_id |-> NoUser, session_id |-> NoSession, limit |-> TopK \div 2,
          threshold |-> HybridThreshold]
    ELSE [user_id |-> NoUser, session_id |-> chat.session_id, limit |-> TopK \div 3,
          threshold |-> SessionMatchThreshold]

\* What one adapter call can return: the rpc rows when there are any, the
\* rows of the fallback query otherwise, [] when a store call raises.
AdapterAnswers(pool, q) ==
    (IF RpcRows(pool, q) # <<>> THEN {RpcRows(pool, q)} ELSE {})
        \cup {FallbackRows(pool, fetched, q) : fetched \in FallbackFetch(pool, q)}
        \cup {<<>>}

\* if include_public: search_public_documents(...)
ChatSearchPublic ==
    /\ chat.pc = "search_public"
    /\ IF chat.include_public
       THEN \E rows \in AdapterAnswers("public", ChatQuery("public")) :
                chat' = [chat EXCEPT !.pc = "search_session", !.public_results = rows]
       ELSE chat' = [chat EXCEPT !.pc = "search_session"]
    /\ UNCHANGED hvars
    /\ UNCHANGED gvars
    /\ UNCHANGED ovars
    /\ UNCHANGED <<cosine, embedding, limited, rate>>

\* if session_id: search_session_documents(query_embedding, session_id, ...)
ChatSearchSession ==
    /\ chat.pc = "search_session"
    /\ \E rows \in AdapterAnswers("session", ChatQuery("session")) :
           chat' = [chat EXCEPT !.pc = "combine", !.session_results = rows]
    /\ UNCHANGED hvars
    /\ UNCHANGED gvars
    /\ UNCHANGED ovars
    /\ UNCHANGED <<cosine, embedding, limited, rate>>

\* combined_results = _combine_and_rank_results(results);
\* relevant_chunks = search_results.get('results', [])
ChatCombine ==
    /\ chat.pc = "combine"
    /\ chat' = [chat EXCEPT
                  !.pc = "generate",
                  !.sources = CombineAndRankResults(
                      [public_results |-> SourceRows(chat.public_results),
                       user_results |-> <<>>,
                       session_results |-> SourceRows(chat.session_results)])]
    /\ UNCHANGED hvars
    /\ UNCHANGED gvars
    /\ UNCHANGED ovars
    /\ UNCHANGED <<cosine, embedding, limited, rate>>

\* The generation step and the end of the handler: the response carries
\* 'sources': relevant_chunks when the generation returns; when it raises the
\* handler answers 500.
ChatGenerate ==
    /\ chat.pc = "generate"
    /\ IF PromptMethodCalled \in PromptTemplatesMethods
       THEN \/ chat' = [chat EXCEPT !.pc = "done", !.response = "success"]
            \/ chat' = [chat EXCEPT !.pc = "done", !.response = "500"]
       ELSE chat' = [chat EXCEPT !.pc = "done", !.response = "500"]
    /\ UNCHANGED hvars
    /\ UNCHANGED gvars
    /\ UNCHANGED ovars
    /\ UNCHANGED <<cosine, embedding, limited, rate>>

\* The parts of the state a specification does not move.
IdleAnswer == answer = NoAnswer
IdleChunk == chunker = IdleChunker
IdleStore == ingest = IdleIngest /\ store = EmptyStore /\ found = NoSearch
IdleEmbed == embedLog = [r \in Requests |-> <<>>]
IdleCosine == cosine = NoCosine
IdleEmbedding == embedding = NoEmbedding
IdleLimited == limited = NoLimited
IdleRate == rate = NoRate
IdleChat == chat = NoChat
IdleRest == IdleLimited /\ IdleRate /\ IdleChat

\* ------------------------------------------------------------------------
\* Specifications
\* ------------------------------------------------------------------------
IdleGen ==
    /\ hasBackup = FALSE
    /\ activeKey = "primary"
    /\ gpc = [r \in Requests |-> "idle"]
    /\ keyLog = [r \in Requests |-> <<>>]
    /\ primaryOutcome = [r \in Requests |-> NoValue]
    /\ returned = [r \in Requests |-> NoValue]
    /\ raisedErr = [r \in Requests |-> NoValue]
    /\ calls = 0

IdleSearch ==
    /\ hpc = "embed"
    /\ params = [include_public |-> TRUE, include_user_docs |-> TRUE, has_session |-> FALSE]
    /\ results = EmptyResults
    /\ poolOutcome = [p \in PoolSet |-> "none"]
    /\ combined_results = <<>>
    /\ context = <<>>

\* A hybrid query from its start to the assembled context.
Init == InitSearch /\ IdleGen /\ IdleAnswer /\ IdleChunk /\ IdleStore /\ IdleEmbed /\ IdleCosine /\ IdleEmbedding /\ IdleRest
Next ==
    \/ GenerateQueryEmbedding
    \/ SearchPublic
    \/ SearchUser
    \/ SearchSession
    \/ CombineAndRank
    \/ BuildContext
Spec == Init /\ [][Next]_vars

\* Concurrent requests in generate_with_fallback.
InitFallback == IdleSearch /\ InitGen /\ IdleAnswer /\ IdleChunk /\ IdleStore /\ IdleEmbed /\ IdleCosine /\ IdleEmbedding /\ IdleRest
NextFallback ==
    \E r \in Requests :
        \/ CallPrimary(r)
        \/ PrimarySucceeds(r)
        \/ PrimaryResourceExhausted(r)
        \/ PrimaryOtherError(r)
        \/ BackupSucceeds(r)
        \/ BackupFails(r)
SpecFallback == InitFallback /\ [][NextFallback]_vars

\* A hybrid query that asks all three pools.
InitAllPools ==
    /\ Init
    /\ params = [include_public |-> TRUE, include_user_docs |-> TRUE, has_session |-> TRUE]
SpecAllPools == InitAllPools /\ [][Next]_vars

\* generate_hybrid_response from the query to the answer.
NextAnswer ==
    \/ GenerateQueryEmbedding
    \/ SearchPublic
    \/ SearchUser
    \/ SearchSession
    \/ CombineAndRank
    \/ BuildContext
    \/ HybridSearchFailed
    \/ GenerateWithHybridContextDetailed
SpecAnswer == Init /\ [][NextAnswer]_vars

\* One call of chunk_text.
InitChunkText == IdleSearch /\ IdleGen /\ IdleAnswer /\ InitChunk /\ IdleStore /\ IdleEmbed /\ IdleCosine /\ IdleEmbedding /\ IdleRest
NextChunkText ==
    \/ ChunkTextStart
    \/ ChunkTextSentence
    \/ ChunkTextReturn
SpecChunkText == InitChunkText /\ [][NextChunkText]_vars

\* One document processed into an empty store.
InitProcess ==
    /\ IdleSearch /\ IdleGen /\ IdleAnswer /\ IdleChunk /\ IdleEmbed
    /\ IdleCosine /\ IdleEmbedding /\ IdleRest
    /\ InitIngest(MaxChunks) /\ store = EmptyStore /\ found = NoSearch
NextProcess ==
    \/ EmbedChunk
    \/ EmbedChunkFails
    \/ InsertDocument
    \/ InsertChunkBatch
    \/ UpdateStatusCompleted
    \/ StoreCallFails
SpecProcess == InitProcess /\ [][NextProcess]_vars

\* One document processed while the pools are searched.
InitStoreRace ==
    /\ IdleSearch /\ IdleGen /\ IdleAnswer /\ IdleChunk /\ IdleEmbed
    /\ IdleCosine /\ IdleEmbedding /\ IdleRest
    /\ InitIngest(MaxRaceChunks) /\ store = EmptyStore /\ found = NoSearch
NextStoreRace ==
    \/ NextProcess
    \/ SearchAdapter
SpecStoreRace == InitStoreRace /\ [][NextStoreRace]_vars

\* Pool adapter calls on a store of processed documents.
InitAdapters ==
    /\ IdleSearch /\ IdleGen /\ IdleAnswer /\ IdleChunk /\ IdleEmbed
    /\ IdleCosine /\ IdleEmbedding /\ IdleRest
    /\ ingest = IdleIngest /\ store \in PresetStores /\ found = NoSearch
NextAdapters == SearchAdapter
SpecAdapters == InitAdapters /\ [][NextAdapters]_vars

\* Concurrent requests that embed their queries and generate.
NextShared ==
    \/ NextFallback
    \/ \E r \in Requests : EmbedQuery(r)
SpecShared == InitFallback /\ [][NextShared]_vars

\* One call of _calculate_cosine_similarity.
InitCosineCall ==
    /\ IdleSearch /\ IdleGen /\ IdleAnswer /\ IdleChunk /\ IdleStore /\ IdleEmbed
    /\ InitCosine /\ IdleEmbedding /\ IdleRest
NextCosine == CalculateCosineSimilarity
SpecCosine == InitCosineCall /\ [][NextCosine]_vars

\* One call of generate_embedding or generate_query_embedding.
InitEmbedCall ==
    /\ IdleSearch /\ IdleGen /\ IdleAnswer /\ IdleChunk /\ IdleStore /\ IdleEmbed
    /\ IdleCosine /\ InitEmbedding /\ IdleRest
NextEmbedCall ==
    \/ EmbedSend
    \/ EmbedAnswer
SpecEmbedCall == InitEmbedCall /\ [][NextEmbedCall]_vars

\* Concurrent requests in generate_with_fallback that their callers can
\* abandon.
NextCancel ==
    \/ NextFallback
    \/ \E r \in Requests : Cancelled(r)
SpecCancel == InitFallback /\ [][NextCancel]_vars

\* hybrid_search called with a limit.
InitLimitedSearch ==
    /\ IdleSearch /\ IdleGen /\ IdleAnswer /\ IdleChunk /\ IdleStore /\ IdleEmbed
    /\ IdleCosine /\ IdleEmbedding /\ InitLimited /\ IdleRate /\ IdleChat
NextLimited ==
    \/ LimitedSearchPublic
    \/ LimitedSearchUser
    \/ LimitedSearchSession
    \/ LimitedCombine
SpecLimited == InitLimitedSearch /\ [][NextLimited]_vars

\* One chat message against a store that holds documents of both users.
InitChatMessage ==
    /\ IdleSearch /\ IdleGen /\ IdleAnswer /\ IdleChunk /\ IdleEmbed
    /\ ingest = IdleIngest /\ found = NoSearch /\ store \in PresetStores
    /\ IdleCosine /\ IdleEmbedding /\ IdleLimited /\ IdleRate /\ InitChat
NextChat ==
    \/ ChatSearchPublic
    \/ ChatSearchSession
    \/ ChatCombine
    \/ ChatGenerate
SpecChat == InitChatMessage /\ [][NextChat]_vars

\* Concurrent chat requests of one user on a limited plan.
InitRateLimit ==
    /\ IdleSearch /\ IdleGen /\ IdleAnswer /\ IdleChunk /\ IdleStore /\ IdleEmbed
    /\ IdleCosine /\ IdleEmbedding /\ IdleLimited /\ InitRate /\ IdleChat
NextRateLimit ==
    \E r \in RateRequests :
        \/ CheckRateLimit(r)
        \/ GenerateAnswer(r)
        \/ IncrementSelect(r)
        \/ IncrementWrite(r)
        \/ IncrementFails(r)
SpecRateLimit == InitRateLimit /\ [][NextRateLimit]_vars

\* ------------------------------------------------------------------------
\* Properties of the hybrid query (checked under Spec)
\* ------------------------------------------------------------------------
Merged == hpc \in {"session_context", "context_built"}
Asked(p) == CASE p = "public" -> params.include_public
              [] p = "user" -> params.include_user_docs
              [] p = "session" -> params.has_session
Failed(p) == poolOutcome[p] \in {"store_error", "malformed"}

\* The rows the pool searches returned, by row id; ids grow along the input
\* order public, user, session and along each pool's list.
PoolOfId(id) == IF id <= PoolBase["user"] THEN "public"
                ELSE IF id <= PoolBase["session"] THEN "user" ELSE "session"
InputIds == UNION {{results[ResultKey(p)][i].id : i \in 1..Len(results[ResultKey(p)])} : p \in PoolSet}
InputRow(id) == results[ResultKey(PoolOfId(id))][id - PoolBase[PoolOfId(id)]]
OutputIds == {combined_results[k].id : k \in 1..Len(combined_results)}

\* The dedup key of each content of the store, worked out by hand: trimmed,
\* lower-cased, first 200 characters.
ExpectedKey == [c \in ContentIds |->
    CASE c = "c1" -> "a x 200" [] c = "c2" -> "a x 200"
      [] c = "c3" -> "a x 199, b" [] c = "c4" -> "x"]
SameKey(r1, r2) == ExpectedKey[r1.chunk_content] = ExpectedKey[r2.chunk_content]

\* The boost table of the specification, and the score it gives a row.
ExpectedBoost == [p \in PoolSet |-> CASE p = "public" -> 10 [] p = "user" -> 5 [] p = "session" -> 15]
ExpectedScore(id) ==
    IF InputRow(id).similarity = Missing THEN ExpectedBoost[PoolOfId(id)]
    ELSE InputRow(id).similarity + ExpectedBoost[PoolOfId(id)]

\* C1: a pool whose search failed contributes an empty list, the searches of
\* the other pools that were asked for still run, hybrid_search does not
\* raise, and what it returns is the merge of the rows of the pools that
\* succeeded: only their rows, and each of them unless a row of the same
\* dedup key is returned.
C1_PoolFailureIsolated ==
    \A p \in PoolSet :
        Failed(p) =>
            /\ results[ResultKey(p)] = <<>>
            /\ hpc # "raised"
            /\ hpc \notin {"public", "user", "session"} =>
                   \A q \in PoolSet : IF Asked(q) THEN poolOutcome[q] \in {"ok", "store_error", "malformed"}
                                      ELSE poolOutcome[q] = "skipped"
            /\ Merged =>
                   /\ \A id \in OutputIds : poolOutcome[PoolOfId(id)] = "ok"
                   /\ \A id \in InputIds :
                          \E k \in 1..Len(combined_results) : SameKey(combined_results[k], InputRow(id))

C1_Witness ==
    /\ hpc = "context_built"
    /\ poolOutcome["public"] = "store_error"
    /\ poolOutcome["user"] = "ok"
    /\ poolOutcome["session"] = "malformed"
    /\ Len(results.user_results) = 2
    /\ Len(combined_results) = 2

\* C2: the merged output is in non-increasing order of boosted_similarity,
\* also when the deduplication dropped results.
C2_RankingMonotonic ==
    Merged =>
        \A i, j \in 1..Len(combined_results) :
            i < j => combined_results[i].boosted_similarity >= combined_results[j].boosted_similarity

C2_Witness ==
    /\ Merged
    /\ Len(combined_results) = 2
    /\ TotalFound = 3
    /\ combined_results[1].boosted_similarity > combined_results[2].boosted_similarity
    /\ combined_results[1].id > combined_results[2].id

\* Rank of the pools among results of equal raw similarity.
PoolPriority == [p \in PoolSet |-> CASE p = "session" -> 1 [] p = "public" -> 2 [] p = "user" -> 3]

\* C3: a merged result that came from pool p with raw similarity s carries
\* source_type p and boosted_similarity s + boost[p] (public 0.10, user 0.05,
\* session 0.15); of results with equal raw similarity a session result
\* comes before a public one, and a public one before a user one.
C3_BoostCorrect ==
    Merged =>
        /\ \A k \in 1..Len(combined_results) :
               LET r == combined_results[k]
               IN  /\ r.id \in InputIds
                   /\ r.source_type = PoolOfId(r.id)
                   /\ r.similarity = InputRow(r.id).similarity
                   /\ r.similarity # Missing =>
                          r.boosted_similarity = r.similarity + ExpectedBoost[PoolOfId(r.id)]
        /\ \A i, j \in 1..Len(combined_results) :
               LET a == combined_results[i]
                   b == combined_results[j]
               IN  (/\ a.similarity # Missing
                    /\ a.similarity = b.similarity
                    /\ PoolPriority[PoolOfId(a.id)] < PoolPriority[PoolOfId(b.id)]) => i < j

C3_Witness ==
    /\ Merged
    /\ Len(combined_results) = 3
    /\ \A k \in 1..3 : combined_results[k].similarity = 80
    /\ combined_results[1].source_type = "session" /\ combined_results[1].boosted_similarity = 95
    /\ combined_results[2].source_type = "public" /\ combined_results[2].boosted_similarity = 90
    /\ combined_results[3].source_type = "user" /\ combined_results[3].boosted_similarity = 85

\* C4: no two merged results have the same dedup key (content trimmed,
\* lower-cased, first 200 characters), and a row is missing from the merged
\* output only if a row of the same key is in it.
C4_NoDuplicateKeys ==
    Merged =>
        /\ \A i, j \in 1..Len(combined_results) :
               i # j => ~SameKey(combined_results[i], combined_results[j])
        /\ OutputIds \subseteq InputIds
        /\ \A id \in InputIds \ OutputIds :
               \E k \in 1..Len(combined_results) : SameKey(combined_results[k], InputRow(id))

C4_Witness ==
    /\ Merged
    /\ TotalFound = 3
    /\ Len(combined_results) = 2
    /\ \E id1, id2 \in InputIds :
           /\ id1 \in OutputIds /\ id2 \notin OutputIds
           /\ InputRow(id1).chunk_content = "c1" /\ InputRow(id2).chunk_content = "c2"
    /\ \E k \in 1..2 : combined_results[k].chunk_content = "c3"

\* C5 as claimed: of rows that are duplicates of each other, the one kept is
\* the one appearing earliest in the input (public, user, session, then the
\* position in the pool's list).
C5_KeepsEarliestInInput ==
    Merged =>
        \A id \in OutputIds : \A other \in InputIds :
            SameKey(InputRow(id), InputRow(other)) => id <= other

\* C5 as amended: of rows that are duplicates of each other, the one kept is
\* the one ranked first: the one of highest boosted_similarity and, among
\* duplicates of equal boosted_similarity, the earliest in the input.
C5_KeepsBestRanked ==
    Merged =>
        /\ \A id \in InputIds : \E kept \in OutputIds : SameKey(InputRow(id), InputRow(kept))
        /\ \A id \in OutputIds : \A other \in InputIds :
               (other # id /\ SameKey(InputRow(id), InputRow(other))) =>
                   \/ ExpectedScore(other) < ExpectedScore(id)
                   \/ ExpectedScore(other) = ExpectedScore(id) /\ id < other

C5_Witness ==
    /\ Merged
    /\ \E id \in OutputIds : \E other \in InputIds \ OutputIds :
           /\ SameKey(InputRow(id), InputRow(other))
           /\ other < id
           /\ ExpectedScore(other) < ExpectedScore(id)
    /\ \E id \in OutputIds : \E other \in InputIds \ OutputIds :
           /\ SameKey(InputRow(id), InputRow(other))
           /\ id < other
           /\ ExpectedScore(other) = ExpectedScore(id)

\* C6: merged results of equal boosted_similarity are in insertion order:
\* public before user before session, and within a pool in the order of the
\* pool's list.
C6_TiesKeepInsertionOrder ==
    Merged =>
        \A i, j \in 1..Len(combined_results) :
            (/\ i < j
             /\ combined_results[i].boosted_similarity = combined_results[j].boosted_similarity)
                => combined_results[i].id < combined_results[j].id

C6_Witness ==
    /\ Merged
    /\ Len(combined_results) = 3
    /\ combined_results[1].boosted_similarity = combined_results[3].boosted_similarity
    /\ combined_results[1].source_type = "public"
    /\ combined_results[2].source_type = "user"
    /\ combined_results[3].source_type = "session"

\* A line is blank when all its fragments are empty or whitespace.
BlankFragments == {"", " ", "\t", "\n"}
BlankLine(line) == \A k \in 1..Len(line) : line[k] \in BlankFragments

\* C7: for every merged list, the empty one included, the assembled context
\* is a text with at least one line that is not blank; for the empty list it
\* is the fixed text that points the generator to general legal knowledge.
C7_ContextNeverBlank ==
    hpc = "context_built" =>
        /\ context # <<>>
        /\ \E k \in 1..Len(context) : ~BlankLine(context[k])
        /\ combined_results = <<>> =>
               context = <<(<<"Based on general legal knowledge and procedures:">>)>>

C7_Witness ==
    /\ hpc = "context_built"
    /\ \A p \in PoolSet : poolOutcome[p] = "ok"
    /\ combined_results = <<>>
    /\ context = <<FallbackContext>>

\* ------------------------------------------------------------------------
\* Properties of generate_with_fallback (checked under SpecFallback)
\* ------------------------------------------------------------------------
\* C8: a quota failure of the primary call is retried at most once and only
\* with the backup key: with a backup configured exactly one further call is
\* made, with the backup key, and when it answers its text is the value
\* returned; with no backup configured no further call is made and the quota
\* error propagates.
C8_QuotaRetriedOnceOnBackup ==
    \A r \in Requests :
        /\ Len(keyLog[r]) <= 2
        /\ Len(keyLog[r]) = 2 => primaryOutcome[r] = "quota" /\ hasBackup
        /\ (primaryOutcome[r] = "quota" /\ hasBackup) =>
               /\ keyLog[r] = <<"primary", "backup">>
               /\ gpc[r] \in {"backup_call", "returned", "raised"}
               /\ gpc[r] = "returned" => returned[r] = <<"text", "backup">>
               /\ gpc[r] = "raised" => raisedErr[r] = "ResourceExhausted"
        /\ (primaryOutcome[r] = "quota" /\ ~hasBackup) =>
               /\ keyLog[r] = <<"primary">>
               /\ gpc[r] = "raised"
               /\ raisedErr[r] = "ResourceExhausted"

C8_Witness ==
    \E r \in Requests :
        /\ hasBackup
        /\ primaryOutcome[r] = "quota"
        /\ gpc[r] = "returned"
        /\ returned[r] = <<"text", "backup">>
        /\ keyLog[r] = <<"primary", "backup">>

\* Request r has configured the backup key and awaits the backup call.
InBackupCall(r) == gpc[r] = "backup_call"

C10_OtherErrorPropagates ==
    /\ [](\A r \in Requests :
              primaryOutcome[r] = "error" =>
                  /\ gpc[r] = "raised"
                  /\ raisedErr[r] = "OtherError"
                  /\ keyLog[r] = <<"primary">>)
    /\ [][\A r \in Requests :
              (primaryOutcome[r] # "error" /\ primaryOutcome'[r] = "error") =>
                  activeKey' = activeKey]_vars

C10_Witness ==
    \E r \in Requests :
        /\ hasBackup
        /\ primaryOutcome[r] = "error"
        /\ gpc[r] = "raised"
        /\ raisedErr[r] = "OtherError"
        /\ activeKey = "backup"

\* ------------------------------------------------------------------------
\* Properties of generate_hybrid_response (checked under SpecAnswer)
\* ------------------------------------------------------------------------
AllPoolsEmpty ==
    \A p \in PoolSet : poolOutcome[p] = "ok" /\ results[ResultKey(p)] = <<>>

IsPrefix(p, s) == Len(p) <= Len(s) /\ SubSeq(s, 1, Len(p)) = p
OnlyWhitespace(text) == \A i \in 1..Len(text) : text[i] \in Whitespace
SingleWord(text) == \A i \in 1..Len(text) : text[i] \notin Whitespace

\* The text of the last m tokens of a chunk.
TailTokens(text, m) ==
    Decode(SubSeq(Encode(text), TokenCount(text) - m + 1, TokenCount(text)))
OverlapLen(c) ==
    IF chunker.chunk_overlap <= c.token_count THEN chunker.chunk_overlap ELSE c.token_count

\* C12: every chunk chunk_text returns has token_count <= chunk_size, except
\* a chunk that is one single word; this includes a sentence longer than
\* chunk_size and a chunk that starts with the overlap of the previous one.
C12_ChunksWithinSize ==
    \A k \in 1..Len(chunker.chunks) :
        \/ chunker.chunks[k].token_count <= chunker.chunk_size
        \/ SingleWord(chunker.chunks[k].chunk_text)

C14_NoEmptyChunks ==
    /\ (chunker.pc = "returned" /\ OnlyWhitespace(chunker.text)) => chunker.chunks = <<>>
    /\ \A k \in 1..Len(chunker.chunks) :
           /\ chunker.chunks[k].chunk_text # <<>>
           /\ ~OnlyWhitespace(chunker.chunks[k].chunk_text)

C14_Witness ==
    /\ chunker.pc = "returned"
    /\ chunker.text = <<" ", " ">>
    /\ chunker.sentences = <<>>
    /\ chunker.chunks = <<>>

\* ------------------------------------------------------------------------
\* Properties of document processing (checked under SpecProcess and
\* SpecStoreRace)
\* ------------------------------------------------------------------------
\* C15: when the embedding of any chunk of a document fails, processing ends
\* with an error and nothing of the document is in the store: no document
\* row and no chunk, also not of batches embedded before the failure.
C15_EmbeddingFailureWritesNothing ==
    ingest.failed_at = "embedding" =>
        /\ ingest.pc = "raised"
        /\ \A d \in store.documents : d.id # NextDocId
        /\ \A c \in store.chunks : c.document_id # NextDocId

C15_Witness ==
    /\ ingest.failed_at = "embedding"
    /\ ingest.pc = "raised"
    /\ ingest.processed = EmbedBatchSize
    /\ ingest.embedded = EmbedBatchSize
    /\ ingest.n > EmbedBatchSize

\* The document a returned row belongs to, as it was when the adapter ran.
DocThen(row) == CHOOSE d \in found.docs_then : d.id = row.document_id

\* C16: a pool search returns a chunk of a document only when the document's
\* status was 'completed' at the time of the search, however the search
\* falls between the steps of the store operation.
C16_OnlyCompletedReturned ==
    \A k \in 1..Len(found.rows) : DocThen(found.rows[k]).processing_status = "completed"

\* ------------------------------------------------------------------------
\* The merge as a function of the three lists (checked under SpecAllPools)
\* ------------------------------------------------------------------------
\* Row a is ranked before row b: higher score, or equal score and earlier in
\* the lists taken in the order public, user, session.
RankedBefore(a, b) ==
    \/ ExpectedScore(a) > ExpectedScore(b)
    \/ ExpectedScore(a) = ExpectedScore(b) /\ a < b
\* The rows that survive: those with no better ranked row of the same key.
KeptIds ==
    {id \in InputIds :
        ~\E other \in InputIds : /\ other # id
                                 /\ SameKey(InputRow(other), InputRow(id))
                                 /\ RankedBefore(other, id)}
\* C17: the merged ranking is determined by the three pools' result lists
\* alone: it is the one sequence given by the rows' scores, keys and
\* positions in their lists, whatever the order in which the searches ended.
C17_MergeDependsOnListsOnly ==
    Merged =>
        LET kept == KeptIds
        IN /\ Len(combined_results) = Cardinality(kept)
           /\ \A k \in 1..Len(combined_results) :
                  /\ combined_results[k].id \in kept
                  /\ Cardinality({x \in kept : RankedBefore(x, combined_results[k].id)}) = k - 1

C17_Witness ==
    /\ hpc = "context_built"
    /\ \A p \in PoolSet : poolOutcome[p] = "ok" /\ Len(results[ResultKey(p)]) = 1
    /\ Len(combined_results) = 3
    /\ combined_results[1].source_type = "public"
    /\ combined_results[2].source_type = "session"
    /\ combined_results[1].boosted_similarity = combined_results[2].boosted_similarity
    /\ combined_results[3].source_type = "user"

C19_AdaptersHonourPoolFilter ==
    \A k \in 1..Len(found.rows) :
        LET d == DocThen(found.rows[k])
        IN CASE found.pool = "public" -> d.is_public /\ d.is_active
             [] found.pool = "user" -> ~d.is_public /\ d.user_id = found.q.user_id
             [] found.pool = "session" -> d.chat_session_id = found.q.session_id

C19_Witness ==
    /\ found.pool = "user"
    /\ found.path = "fallback"
    /\ found.q.user_id = "u1"
    /\ Len(found.rows) = 2
    /\ Cardinality(found.docs_then) = Len(Catalogue)

\* C20: a list returned by a pool adapter has at most limit rows, each of
\* similarity at least the threshold of the call, in non-increasing order of
\* similarity.
C20_AdapterListsBoundedSorted ==
    found.path # "none" =>
        /\ Len(found.rows) <= found.q.limit
        /\ \A k \in 1..Len(found.rows) : found.rows[k].similarity >= found.q.threshold
        /\ \A i, j \in 1..Len(found.rows) :
               i < j => found.rows[i].similarity >= found.rows[j].similarity

C20_Witness ==
    /\ found.pool = "public"
    /\ found.path = "fallback"
    /\ found.q.limit = 1
    /\ found.q.threshold = HybridThreshold
    /\ found.rows = <<SearchRow("public", [document_id |-> 1, chunk_index |-> 1], 80)>>
    /\ [document_id |-> 1, chunk_index |-> 0, cosine |-> 60, same_dims |-> TRUE] \in store.chunks

\* ------------------------------------------------------------------------
\* Properties of _calculate_cosine_similarity (checked under SpecCosine)
\* ------------------------------------------------------------------------
NonZero(v) == \E i \in 1..Len(v) : v[i] # 0

\* 0.0 <= x <= 1.0 for a float x
InUnitRange(x) == x = FloatZero \/ (x.m > 0 /\ ~AboveOne(x))

\* C21: _calculate_cosine_similarity never raises and always returns a value
\* in [0,1]; a negative cosine gives 0, a non-zero vector compared with
\* itself gives 1, and the result is 0 when either vector has zero magnitude
\* or the two vectors have different dimensions.
C21_CosineContract ==
    cosine.pc = "done" =>
        LET v == cosine.vector1
            w == cosine.vector2
        IN /\ cosine.outcome \in {"returned", "caught"}
           /\ InUnitRange(cosine.value)
           /\ Len(v) # Len(w) => cosine.value = FloatZero
           /\ (Numeric(v) /\ Numeric(w) /\ Len(v) = Len(w)) =>
                 /\ SumProducts(v, w, 1) < 0 => cosine.value = FloatZero
                 /\ (~NonZero(v) \/ ~NonZero(w)) => cosine.value = FloatZero
                 /\ (v = w /\ NonZero(v)) => cosine.value = FloatOne

\* ------------------------------------------------------------------------
\* Properties of the pool adapters' scores (checked under SpecAdapters)
\* ------------------------------------------------------------------------
\* The fallback of the call scored a fetched chunk whose embedding has not
\* the length of the query embedding.
MismatchScored ==
    /\ found.pool \in {"public", "user"}
    /\ \E k \in 1..Len(found.fetched) : ~found.fetched[k].same_dims

\* C22: a call site about to compute the similarity of the query vector and a
\* stored vector of a different dimension fails with an error; it never gives
\* the candidate similarity 0 and carries on.
C22_DimensionMismatchFails ==
    MismatchScored => found.path = "error"

\* ------------------------------------------------------------------------
\* Properties of the embedding methods (checked under SpecEmbedCall)
\* ------------------------------------------------------------------------
EmptyOrBlank(text) == \A i \in 1..Len(text) : text[i] \in Whitespace

\* C23: an empty or whitespace-only input is rejected with an error before
\* any call of the embedding provider, for document text and for query text;
\* the provider is never called with empty content.
C23_EmptyInputRejected ==
    /\ (EmptyOrBlank(embedding.text) /\ embedding.pc # "called") =>
           (embedding.outcome = "rejected" /\ embedding.sent = NotSent)
    /\ embedding.sent # <<>>

\* The stored chunk a returned row comes from, and the cosine similarity of
\* its vector with the query vector as _calculate_cosine_similarity gives it.
ChunkOfRow(row) ==
    CHOOSE c \in store.chunks :
        c.document_id = row.document_id /\ c.chunk_index = row.chunk_index
RealSimilarity(c) == IF c.same_dims THEN c.cosine ELSE 0

\* C24: the similarity of every result an adapter returns is the cosine
\* similarity of the query vector and the chunk's stored vector, unless the
\* store scored it (rpc rows); no adapter gives its candidates a constant.
C24_SimilarityIsComputed ==
    found.path = "fallback" =>
        \A k \in 1..Len(found.rows) :
            found.rows[k].similarity = RealSimilarity(ChunkOfRow(found.rows[k]))

\* ------------------------------------------------------------------------
\* Properties of the context blocks (checked under SpecAllPools)
\* ------------------------------------------------------------------------
\* The lines of the context that are the header of pool p's block.
HeaderLines(p) == {i \in 1..Len(context) : context[i] = BlockHeader(p)}
AnyHeader(i) == \E p \in PoolSet : context[i] = BlockHeader(p)
IsContentLine(line) == Len(line) = 2 /\ line[1] = "Content: "

\* The chunk contents rendered in the block whose header is line h, in the
\* order of the text: the content lines from h to the next header.
BlockEnd(h) ==
    LET later == {i \in (h + 1)..Len(context) : AnyHeader(i)}
    IN IF later = {} THEN Len(context)
       ELSE (CHOOSE i \in later : \A j \in later : i <= j) - 1
RenderedIn(h) ==
    LET lines == SelectSeq(SubSeq(context, h + 1, BlockEnd(h)), IsContentLine)
    IN [k \in 1..Len(lines) |-> lines[k][2]]
RankedContents(p) ==
    LET group == ChunksOf(combined_results, p)
    IN [k \in 1..Len(group) |-> group[k].chunk_content]

\* C25: the context has one labelled block per non-empty source group and
\* none for an empty group, in the order public, user, session; every chunk
\* of the ranked list is rendered once, in the block of its group, and the
\* chunks of a block keep the order they have in the ranked list.
C25_ContextBlocks ==
    hpc = "context_built" =>
        /\ \A p \in PoolSet :
              IF ChunksOf(combined_results, p) = <<>> THEN HeaderLines(p) = {}
              ELSE /\ Cardinality(HeaderLines(p)) = 1
                   /\ \A h \in HeaderLines(p) : RenderedIn(h) = RankedContents(p)
        /\ \A i \in 1..3, j \in 1..3 :
              i < j => \A hi \in HeaderLines(Pools[i]), hj \in HeaderLines(Pools[j]) : hi < hj
        /\ Cardinality({i \in 1..Len(context) : IsContentLine(context[i])})
              = Len(combined_results)

\* The ranked list has a session chunk between two public chunks and no user
\* chunk: grouping moves the session chunk behind both public chunks.
C25_Witness ==
    /\ hpc = "context_built"
    /\ Len(combined_results) = 3
    /\ combined_results[1].source_type = "public"
    /\ combined_results[2].source_type = "session"
    /\ combined_results[3].source_type = "public"
    /\ context[1] = BlockHeader("public")
    /\ context[8] = BlockHeader("session")

\* ------------------------------------------------------------------------
\* Properties of an abandoned generation (checked under SpecCancel)
\* ------------------------------------------------------------------------
\* Request r was abandoned while its backup call was in flight.
CancelledInBackupCall(r) ==
    /\ gpc[r] = "raised"
    /\ raisedErr[r] = "CancelledError"
    /\ keyLog[r] = <<"primary", "backup">>

C27_AtMostLimitResults ==
    limited.pc = "returned" => Len(limited.combined_results) <= limited.limit

OwnerOfSource(x) == Catalogue[x.id[1]].user_id
PrivateSource(x) == ~Catalogue[x.id[1]].is_public
AppearsIn(sub, s) ==
    \E i \in 0..(Len(s) - Len(sub)) : SubSeq(s, i + 1, i + Len(sub)) = sub
\* " ".join(seq)
JoinBlank(seq) ==
    LET F[k \in 0..Len(seq)] ==
            IF k = 0 THEN <<>>
            ELSE IF k = 1 THEN seq[1]
            ELSE F[k-1] \o <<" ">> \o seq[k]
    IN F[Len(seq)]
\* The overlap seed at the head of chunk i > 1: the last
\* min(chunk_overlap, token_count) tokens of chunk i - 1.
SeedOf(i) ==
    Strip(TailTokens(chunker.chunks[i - 1].chunk_text, OverlapLen(chunker.chunks[i - 1])))
\* Chunk i without its seed.
WithoutSeed(i) ==
    LET text == chunker.chunks[i].chunk_text
    IN IF i = 1 THEN text ELSE Strip(SubSeq(text, Len(SeedOf(i)) + 1, Len(text)))
\* cut[i] is the number of the last sentence chunk i adds: the chunks
\* without their seeds are the sentences cut into consecutive runs.
CutsSentences(cut) ==
    /\ cut[0] = 0
    /\ cut[Len(chunker.chunks)] = Len(chunker.sentences)
    /\ \A i \in 1..Len(chunker.chunks) :
           /\ cut[i - 1] < cut[i]
           /\ i > 1 => IsPrefix(SeedOf(i), chunker.chunks[i].chunk_text)
           /\ WithoutSeed(i) = JoinBlank(SubSeq(chunker.sentences, cut[i - 1] + 1, cut[i]))

====
